---- MODULE Spec2Model ----
(***************************************************************************)
(* Model of the multi-provider dispatch and response-extraction code of    *)
(* ZeroFalse:                                                              *)
(*   src/OpenVuln/generate_prompts_with_openrouter.py                      *)
(*       OpenRouterPromptGenerator._call_openrouter_api (call + cascade)   *)
(*   src/OWASP/llm_api_handler.py                                          *)
(*       MODEL_CONFIGS, validate_model_parameters, send_to_llm, send_to_*  *)
(*                                                                         *)
(* Text is modelled as a sequence of lexemes.  Every lexeme stands for a   *)
(* fixed run of characters and a text is the concatenation of its runs:    *)
(*   LB {   RB }   LS [   RS ]   COLON :   COMMA ,   WS (one blank)        *)
(*   FENCE ```   JSONTAG json   PROSE Analysis   NUM 7                     *)
(*   str with body b: "b"  (b holds no quote, backslash, brace, backtick)  *)
(* json.loads and the regular expressions of the cascade are computed on   *)
(* these lexemes exactly as Python computes them on the characters.        *)
(***************************************************************************)
EXTENDS Integers, Sequences, FiniteSets, TLC

----------------------------------------------------------------------------
(* Bounds of the model (not program constants).                            *)

\* longest free-form lexeme sequence a remote model may answer with
MaxNoise == 2

----------------------------------------------------------------------------
(* Lexemes                                                                 *)

Tok(k) == [k |-> k, v |-> ""]

Str(b) == [k |-> "str", v |-> b]

LB == Tok("LB")

RB == Tok("RB")

LS == Tok("LS")

RS == Tok("RS")

COLON == Tok("COLON")

COMMA == Tok("COMMA")

WS == Tok("WS")

FENCE == Tok("FENCE")

JSONTAG == Tok("JSONTAG")

PROSE == Tok("PROSE")

NUM == Tok("NUM")

\* required_fields of the loose-object scan, and the keys of every literal
\* verdict the function builds
required_fields ==
    <<"False Positive", "Sanitization Found?", "Attack Feasible?", "Confidence">>

RequiredSet == {required_fields[i] : i \in 1..Len(required_fields)}

----------------------------------------------------------------------------
(* JSON values: Python objects produced by json.loads                      *)

JStr(s) == [ty |-> "str", s |-> s, m |-> <<>>]

JNum == [ty |-> "num", s |-> "7", m |-> <<>>]

JArr(items) == [ty |-> "arr", s |-> "", m |-> items]

JObj(d) == [ty |-> "obj", s |-> "", m |-> d]

ParseFail == [ok |-> FALSE, val |-> JStr(""), nxt |-> 0]

\* dict[key] = value (an existing key is overwritten)
DictSet(d, key, value) ==
    [x \in (DOMAIN d) \cup {key} |-> IF x = key THEN value ELSE d[x]]

\* dict.update(other)
DictUpdate(d, other) ==
    [x \in (DOMAIN d) \cup (DOMAIN other) |->
        IF x \in DOMAIN other THEN other[x] ELSE d[x]]

RECURSIVE SkipWs(_, _)
\* index of the first lexeme at or after i that is not whitespace
SkipWs(t, i) ==
    IF i <= Len(t) /\ t[i].k = "WS" THEN SkipWs(t, i + 1) ELSE i

RECURSIVE SkipNum(_, _)
\* adjacent digits form one number
SkipNum(t, i) ==
    IF i <= Len(t) /\ t[i].k = "NUM" THEN SkipNum(t, i + 1) ELSE i

RECURSIVE ParseVal(_, _)
RECURSIVE ParseMembers(_, _, _)
RECURSIVE ParseElems(_, _, _)

\* members of an object from the key at i on; acc is the dict built so far
ParseMembers(t, i, acc) ==
    IF i > Len(t) \/ t[i].k # "str" THEN ParseFail
    ELSE LET c == SkipWs(t, i + 1) IN
         IF c > Len(t) \/ t[c].k # "COLON" THEN ParseFail
         ELSE LET r == ParseVal(t, SkipWs(t, c + 1)) IN
              IF ~r.ok THEN ParseFail
              ELSE LET d == DictSet(acc, t[i].v, r.val)
                       e == SkipWs(t, r.nxt)
                   IN  IF e > Len(t) THEN ParseFail
                       ELSE IF t[e].k = "RB"
                            THEN [ok |-> TRUE, val |-> JObj(d), nxt |-> e + 1]
                       ELSE IF t[e].k = "COMMA"
                            THEN ParseMembers(t, SkipWs(t, e + 1), d)
                       ELSE ParseFail

\* elements of an array from the value at i on
ParseElems(t, i, acc) ==
    LET r == ParseVal(t, i) IN
    IF ~r.ok THEN ParseFail
    ELSE LET a == Append(acc, r.val)
             e == SkipWs(t, r.nxt)
         IN  IF e > Len(t) THEN ParseFail
             ELSE IF t[e].k = "RS"
                  THEN [ok |-> TRUE, val |-> JArr(a), nxt |-> e + 1]
             ELSE IF t[e].k = "COMMA"
                  THEN ParseElems(t, SkipWs(t, e + 1), a)
             ELSE ParseFail

\* one JSON value starting at lexeme i (whitespace already skipped)
ParseVal(t, i) ==
    IF i > Len(t) THEN ParseFail
    ELSE CASE t[i].k = "str" ->
                [ok |-> TRUE, val |-> JStr(t[i].v), nxt |-> i + 1]
           [] t[i].k = "NUM" ->
                [ok |-> TRUE, val |-> JNum, nxt |-> SkipNum(t, i)]
           [] t[i].k = "LB" ->
                LET j == SkipWs(t, i + 1) IN
                IF j <= Len(t) /\ t[j].k = "RB"
                THEN [ok |-> TRUE, val |-> JObj(<<>>), nxt |-> j + 1]
                ELSE ParseMembers(t, j, <<>>)
           [] t[i].k = "LS" ->
                LET j == SkipWs(t, i + 1) IN
                IF j <= Len(t) /\ t[j].k = "RS"
                THEN [ok |-> TRUE, val |-> JArr(<<>>), nxt |-> j + 1]
                ELSE ParseElems(t, j, <<>>)
           [] OTHER -> ParseFail

\* json.loads(text): ok = FALSE stands for json.JSONDecodeError
json_loads(t) ==
    LET r == ParseVal(t, SkipWs(t, 1)) IN
    IF r.ok /\ SkipWs(t, r.nxt) = Len(t) + 1
    THEN [ok |-> TRUE, val |-> r.val]
    ELSE [ok |-> FALSE, val |-> JStr("")]

RECURSIVE DumpsItems(_, _)
\* the members of json.dumps, separated by ", ", each key and value by ": "
DumpsItems(pairs, i) ==
    IF i > Len(pairs) THEN <<>>
    ELSE (IF i > 1 THEN <<COMMA, WS>> ELSE <<>>)
         \o <<Str(pairs[i][1]), COLON, WS, Str(pairs[i][2])>>
         \o DumpsItems(pairs, i + 1)

\* json.dumps of a dict of strings given as its items in insertion order
json_dumps(pairs) == <<LB>> \o DumpsItems(pairs, 1) \o <<RB>>

\* the dict whose items, in insertion order, are pairs (keys distinct)
DictOf(pairs) ==
    [x \in {pairs[i][1] : i \in 1..Len(pairs)} |->
        JStr(pairs[CHOOSE i \in 1..Len(pairs) : pairs[i][1] = x][2])]

----------------------------------------------------------------------------
(* The regular expressions of the cascade                                  *)

NoMatch == [ok |-> FALSE, grp |-> <<>>]

\* the closing } of \{.*?\}\s*``` for an object opened at j: the first }
\* after j that is followed by optional whitespace and a fence (0: none)
FenceClose(t, j) ==
    LET Ks == {k \in (j + 1)..Len(t) :
                  /\ t[k].k = "RB"
                  /\ LET e == SkipWs(t, k + 1) IN e <= Len(t) /\ t[e].k = "FENCE"}
    IN  IF Ks = {} THEN 0 ELSE CHOOSE k \in Ks : \A x \in Ks : k <= x

\* the opening of a pattern ```json\s*\{ whose tag is not optional
FenceOpen_tag_required(t, i) ==
    LET a == i + 1
        j == SkipWs(t, a + 1)
    IN  IF /\ t[i].k = "FENCE"
           /\ a <= Len(t)
           /\ t[a].k = "JSONTAG"
           /\ j <= Len(t)
           /\ t[j].k = "LB"
        THEN j ELSE 0

\* the { that ```(?:json)?\s*\{ reaches from a fence at i (0: none)
FenceOpen(t, i) ==
    LET a == i + 1
        b == IF a <= Len(t) /\ t[a].k = "JSONTAG" THEN a + 1 ELSE a
        j == SkipWs(t, b)
    IN  IF t[i].k = "FENCE" /\ j <= Len(t) /\ t[j].k = "LB" THEN j ELSE 0

\* re.search(r'```(?:json)?\s*(\{.*?\})\s*```', content, re.DOTALL): group 1
\* of the leftmost match
fenced_search(t) ==
    LET Is == {i \in 1..Len(t) :
                  FenceOpen(t, i) # 0 /\ FenceClose(t, FenceOpen(t, i)) # 0}
    IN  IF Is = {} THEN NoMatch
        ELSE LET i == CHOOSE x \in Is : \A y \in Is : x <= y
                 j == FenceOpen(t, i)
             IN  [ok |-> TRUE, grp |-> SubSeq(t, j, FenceClose(t, j))]

\* first brace at or after i (0: none)
NextBrace(t, i) ==
    LET Bs == {b \in i..Len(t) : t[b].k \in {"LB", "RB"}}
    IN  IF Bs = {} THEN 0 ELSE CHOOSE b \in Bs : \A x \in Bs : b <= x

\* whether \{[^{}]*"False Positive"[^{}]*\} matches from the { at i
LooseSpanAt(t, i) ==
    /\ t[i].k = "LB"
    /\ LET k == NextBrace(t, i + 1) IN
       /\ k # 0
       /\ t[k].k = "RB"
       /\ \E p \in (i + 1)..(k - 1) : t[p] = Str("False Positive")

RECURSIVE LooseFrom(_, _)
LooseFrom(t, i) ==
    IF i > Len(t) THEN <<>>
    ELSE IF LooseSpanAt(t, i)
         THEN <<SubSeq(t, i, NextBrace(t, i + 1))>>
              \o LooseFrom(t, NextBrace(t, i + 1) + 1)
         ELSE LooseFrom(t, i + 1)

\* re.findall(r'\{[^{}]*"False Positive"[^{}]*\}', content, re.DOTALL):
\* the matched spans in order of appearance
loose_findall(t) == LooseFrom(t, 1)

\* re.search(r'"<field>"\s*:\s*"([^"]+)"', content): group 1 of the leftmost
\* match
field_search(t, field) ==
    LET ValAt(i) == SkipWs(t, SkipWs(t, i + 1) + 1)
        Hit(i) == /\ t[i] = Str(field)
                  /\ LET c == SkipWs(t, i + 1) IN
                     /\ c <= Len(t)
                     /\ t[c].k = "COLON"
                     /\ ValAt(i) <= Len(t)
                     /\ t[ValAt(i)].k = "str"
                     /\ t[ValAt(i)].v # ""
        Is == {i \in 1..Len(t) : Hit(i)}
    IN  IF Is = {} THEN [ok |-> FALSE, grp |-> ""]
        ELSE [ok |-> TRUE,
              grp |-> t[ValAt(CHOOSE x \in Is : \A y \in Is : x <= y)].v]

----------------------------------------------------------------------------
(* The stages of the cascade in _call_openrouter_api                       *)

\* parsed_response.update({"model_used": model})
Overlay(d, m) == DictUpdate(d, "model_used" :> JStr(m))

\* the literal all-"ERROR" dict, with the given model_used
ErrorVerdict(m) ==
    [x \in RequiredSet \cup {"model_used"} |->
        IF x = "model_used" THEN JStr(m) ELSE JStr("ERROR")]

\* _generate_fallback_response: model_used is self.model
generate_fallback_response(selfModel) == ErrorVerdict(selfModel)

\* the final return of the cascade: model_used is the local model
sentinel_response(m) == ErrorVerdict(m)

\* stage 1 without the model_used overlay
direct_parse_no_overlay(c, m) ==
    IF c.kind # "text" THEN [st |-> "exception", res |-> <<>>]
    ELSE LET p == json_loads(c.toks) IN
         IF ~p.ok THEN [st |-> "decode_error", res |-> <<>>]
         ELSE IF p.val.ty = "obj"
              THEN [st |-> "return", res |-> p.val.m]
              ELSE [st |-> "exception", res |-> <<>>]

\* stage 1: json.loads(content) and update.  st is "return", "decode_error"
\* (json.JSONDecodeError: the cascade goes on) or "exception" (TypeError for
\* a content that is None, AttributeError for a value without update)
direct_parse(c, m) ==
    IF c.kind # "text" THEN [st |-> "exception", res |-> <<>>]
    ELSE LET p == json_loads(c.toks) IN
         IF ~p.ok THEN [st |-> "decode_error", res |-> <<>>]
         ELSE IF p.val.ty = "obj"
              THEN [st |-> "return", res |-> Overlay(p.val.m, m)]
              ELSE [st |-> "exception", res |-> <<>>]

\* stage 2: the first fenced block, parsed
fenced_parse(t, m) ==
    LET f == fenced_search(t)
        p == json_loads(f.grp)
    IN  IF f.ok /\ p.ok /\ p.val.ty = "obj"
        THEN [ok |-> TRUE, res |-> Overlay(p.val.m, m)]
        ELSE [ok |-> FALSE, res |-> <<>>]

\* all(field in parsed_response for field in required_fields)
HasRequired(d) == \A f \in RequiredSet : f \in DOMAIN d

\* a loop that ends at the first span that does not parse or lacks a field
LooseLoop_stop_at_failure(spans, i, m) ==
    IF i > Len(spans) THEN [ok |-> FALSE, res |-> <<>>]
    ELSE LET p == json_loads(spans[i]) IN
         IF p.ok /\ p.val.ty = "obj" /\ HasRequired(p.val.m)
         THEN [ok |-> TRUE, res |-> Overlay(p.val.m, m)]
         ELSE [ok |-> FALSE, res |-> <<>>]

RECURSIVE LooseLoop(_, _, _)
\* for json_str in json_matches: the first span that parses and holds the
\* required fields
LooseLoop(spans, i, m) ==
    IF i > Len(spans) THEN [ok |-> FALSE, res |-> <<>>]
    ELSE LET p == json_loads(spans[i]) IN
         IF p.ok /\ p.val.ty = "obj" /\ HasRequired(p.val.m)
         THEN [ok |-> TRUE, res |-> Overlay(p.val.m, m)]
         ELSE LooseLoop(spans, i + 1, m)

\* stage 3: the loose-object scan
loose_scan(t, m) == LooseLoop(loose_findall(t), 1, m)

\* stage 4: the four field searches; all must match
field_recovery(t, m) ==
    IF \A f \in RequiredSet : field_search(t, f).ok
    THEN [ok |-> TRUE,
          res |-> [x \in RequiredSet \cup {"model_used"} |->
                      IF x = "model_used" THEN JStr(m)
                      ELSE JStr(field_search(t, x).grp)]]
    ELSE [ok |-> FALSE, res |-> <<>>]

\* a handler that re-raises instead of returning the fallback response
except_Exception_reraise(selfModel) ==
    [outcome |-> "raised", res |-> <<>>]

\* except requests.exceptions.RequestException / except Exception: both log
\* and return the fallback response
except_Exception(selfModel) ==
    [outcome |-> "returned", res |-> generate_fallback_response(selfModel)]

----------------------------------------------------------------------------
(* What a remote model may answer                                          *)

\* the model identifiers the generator is constructed or called with
GenModels == {"openai/gpt-4o-mini", "openai/gpt-4o"}

\* model argument of a call: "" stands for None
ModelArgs == {"", "openai/gpt-4o"}

FieldValues == {"Yes", "No"}

Alphabet ==
    {LB, RB, LS, RS, COLON, COMMA, WS, FENCE, JSONTAG, PROSE, NUM,
     Str("False Positive"), Str("Sanitization Found?"), Str("Attack Feasible?"),
     Str("Confidence"), Str("model_used"), Str("Yes"), Str("")}

RECURSIVE SeqsUpTo(_, _)
SeqsUpTo(S, n) ==
    IF n = 0 THEN {<<>>}
    ELSE LET R == SeqsUpTo(S, n - 1) IN
         R \cup {Append(r, x) : r \in {q \in R : Len(q) = n - 1}, x \in S}

\* the items of a verdict with the given values
VerdictPairs(fp, sf, af, cf) ==
    <<<<"False Positive", fp>>, <<"Sanitization Found?", sf>>,
      <<"Attack Feasible?", af>>, <<"Confidence", cf>>>>

\* Verdict-shaped objects: the four required fields and model_used
VerdictShaped ==
    {VerdictPairs(fp, sf, af, cf) \o <<<<"model_used", mu>>>> :
        fp \in FieldValues, sf \in FieldValues, af \in FieldValues,
        cf \in FieldValues, mu \in GenModels}

VerdictA == VerdictPairs("Yes", "No", "No", "High")

VerdictB == VerdictPairs("No", "Yes", "Yes", "Low")

\* a brace span that names False Positive and is not JSON
BrokenSpan == <<LB, Str("False Positive"), COLON, WS, Str("Yes"), WS, PROSE, RB>>

\* a verdict with a further member whose value is an object
NestedVerdict ==
    <<LB>> \o DumpsItems(VerdictA, 1)
    \o <<COMMA, WS, Str("evidence"), COLON, WS, LB, RB, RB>>

RECURSIVE BareLines(_, _)
\* "key": "value" lines without enclosing braces
BareLines(pairs, i) ==
    IF i > Len(pairs) THEN <<>>
    ELSE (IF i > 1 THEN <<WS>> ELSE <<>>)
         \o <<Str(pairs[i][1]), COLON, WS, Str(pairs[i][2])>>
         \o BareLines(pairs, i + 1)

Cores ==
    {json_dumps(VerdictA),
     json_dumps(VerdictA \o <<<<"model_used", "openai/gpt-4o-mini">>>>),
     json_dumps(SubSeq(VerdictA, 1, 3)),
     json_dumps(VerdictPairs("Yes", "No", "No", "")),
     <<LB, RB>>,
     BrokenSpan,
     NestedVerdict,
     BareLines(VerdictA, 1),
     BareLines(SubSeq(VerdictA, 1, 3), 1),
     <<NUM>>,
     <<PROSE, WS, PROSE>>}

Pres ==
    {<<>>,
     <<PROSE, WS>>,
     <<FENCE>>,
     <<FENCE, JSONTAG, WS>>,
     <<PROSE, WS, FENCE, JSONTAG, WS>>,
     <<PROSE, WS, FENCE, WS>>,
     <<FENCE, PROSE, WS>>,
     <<LS>>,
     <<LB, PROSE, RB, WS>>,
     BrokenSpan \o <<WS>>,
     json_dumps(SubSeq(VerdictB, 1, 3)) \o <<WS>>}

Posts ==
    {<<>>,
     <<WS, PROSE>>,
     <<FENCE>>,
     <<WS, FENCE>>,
     <<WS, FENCE, WS, PROSE>>,
     <<WS, PROSE, FENCE>>,
     <<RS>>,
     <<WS>> \o json_dumps(VerdictB)}

\* the texts the remote model answers with
Contents ==
    SeqsUpTo(Alphabet, MaxNoise)
    \cup {json_dumps(v) : v \in VerdictShaped}
    \cup {pre \o core \o post : pre \in Pres, core \in Cores, post \in Posts}

----------------------------------------------------------------------------
(* Python floats (IEEE 754 binary64, round to nearest even) for the values *)
(* of calculate_cost.  A natural number is a sequence of limbs, lowest     *)
(* first; a non-negative float is m * 2^e with m odd, or zero.             *)

\* the base of a limb: 2^10, so that a limb times a divisor up to 2^20 fits
\* an integer
Base == 1024

LimbBits == 10

\* bits of the significand of a binary64
MantissaBits == 53

\* 2^k for k up to LimbBits
Pow2(k) == <<1, 2, 4, 8, 16, 32, 64, 128, 256, 512, 1024>>[k + 1]

RECURSIVE BitLenInt(_)
BitLenInt(n) == IF n = 0 THEN 0 ELSE 1 + BitLenInt(n \div 2)

RECURSIVE BNorm(_)
BNorm(x) ==
    IF x = <<>> THEN <<>>
    ELSE IF x[Len(x)] = 0 THEN BNorm(SubSeq(x, 1, Len(x) - 1))
    ELSE x

RECURSIVE BFromInt(_)
BFromInt(n) == IF n = 0 THEN <<>> ELSE <<n % Base>> \o BFromInt(n \div Base)

Limb(x, i) == IF i <= Len(x) THEN x[i] ELSE 0

Zeros(k) == [i \in 1..k |-> 0]

\* x + y + c from limb i on
RECURSIVE BAddFrom(_, _, _, _)
BAddFrom(x, y, i, c) ==
    IF i > Len(x) /\ i > Len(y)
    THEN IF c = 0 THEN <<>> ELSE <<c>>
    ELSE LET t == Limb(x, i) + Limb(y, i) + c
         IN  <<t % Base>> \o BAddFrom(x, y, i + 1, t \div Base)

BAdd(x, y) == BAddFrom(x, y, 1, 0)

\* x * d + c for one limb d, from limb i on
RECURSIVE BMulLimb(_, _, _, _)
BMulLimb(x, d, i, c) ==
    IF i > Len(x)
    THEN IF c = 0 THEN <<>> ELSE <<c>>
    ELSE LET t == x[i] * d + c
         IN  <<t % Base>> \o BMulLimb(x, d, i + 1, t \div Base)

RECURSIVE BMulFrom(_, _, _)
BMulFrom(x, y, j) ==
    IF j > Len(y) THEN <<>>
    ELSE BAdd(Zeros(j - 1) \o BMulLimb(x, y[j], 1, 0), BMulFrom(x, y, j + 1))

BMul(x, y) == BNorm(BMulFrom(x, y, 1))

BBitLen(x) ==
    IF x = <<>> THEN 0 ELSE LimbBits * (Len(x) - 1) + BitLenInt(x[Len(x)])

\* x * 2^s
BShl(x, s) ==
    IF x = <<>> THEN <<>>
    ELSE Zeros(s \div LimbBits) \o BMulLimb(x, Pow2(s % LimbBits), 1, 0)

\* floor(x / 2^s)
BShr(x, s) ==
    LET q == s \div LimbBits
        r == s % LimbBits
        y == IF q >= Len(x) THEN <<>> ELSE SubSeq(x, q + 1, Len(x))
    IN  BNorm([i \in 1..Len(y) |->
                 (y[i] \div Pow2(r)) + (Limb(y, i + 1) % Pow2(r)) * Pow2(LimbBits - r)])

\* bit k of x (bit 0 is the lowest)
BBit(x, k) == (Limb(x, k \div LimbBits + 1) \div Pow2(k % LimbBits)) % 2

\* the bits of x below bit k are all zero
BLowZero(x, k) ==
    /\ \A i \in 1..(k \div LimbBits) : Limb(x, i) = 0
    /\ Limb(x, k \div LimbBits + 1) % Pow2(k % LimbBits) = 0

\* the number of zero bits below the lowest set bit of n # 0
RECURSIVE LowestBitInt(_)
LowestBitInt(n) == IF n % 2 = 1 THEN 0 ELSE 1 + LowestBitInt(n \div 2)

\* the same for x # 0, searched from limb i on
RECURSIVE BLowestBit(_, _)
BLowestBit(x, i) ==
    IF x[i] # 0 THEN LowestBitInt(x[i])
    ELSE LimbBits + BLowestBit(x, i + 1)

\* -1, 0, 1 as x < y, x = y, x > y (from limb i down)
RECURSIVE BCmpFrom(_, _, _)
BCmpFrom(x, y, i) ==
    IF i = 0 THEN 0
    ELSE IF Limb(x, i) < Limb(y, i) THEN 0 - 1
    ELSE IF Limb(x, i) > Limb(y, i) THEN 1
    ELSE BCmpFrom(x, y, i - 1)

BCmp(x, y) == BCmpFrom(x, y, IF Len(x) > Len(y) THEN Len(x) ELSE Len(y))

\* x - y - c for x >= y, from limb i on
RECURSIVE BSubFrom(_, _, _, _)
BSubFrom(x, y, i, c) ==
    IF i > Len(x) THEN <<>>
    ELSE LET t == x[i] - Limb(y, i) - c
         IN  IF t < 0 THEN <<t + Base>> \o BSubFrom(x, y, i + 1, 1)
             ELSE <<t>> \o BSubFrom(x, y, i + 1, 0)

BSub(x, y) == BNorm(BSubFrom(x, y, 1, 0))

FZero == [m |-> <<>>, e |-> 0]

\* the float with the value m * 2^e, m of at most MantissaBits bits
Canon(m, e) ==
    IF m = <<>> THEN FZero
    ELSE LET tz == BLowestBit(m, 1) IN [m |-> BShr(m, tz), e |-> e + tz]

\* m * 2^e rounded to the nearest float, ties to even
FRound(m, e) ==
    LET len == BBitLen(m) IN
    IF len <= MantissaBits THEN Canon(m, e)
    ELSE LET s == len - MantissaBits
             q == BShr(m, s)
             up == /\ BBit(m, s - 1) = 1
                   /\ (~BLowZero(m, s - 1) \/ BBit(q, 0) = 1)
         IN  Canon(IF up THEN BAdd(q, <<1>>) ELSE q, e + s)

\* long division of x by d < 2^20 from limb i down, r the remainder so far:
\* <<s, q_1, ..., q_i>> with the limbs q of the quotient and s = 1 if a
\* remainder is left, else 0
RECURSIVE DivLimbs(_, _, _, _)
DivLimbs(x, d, i, r) ==
    IF i = 0 THEN <<IF r # 0 THEN 1 ELSE 0>>
    ELSE DivLimbs(x, d, i - 1, (r * Base + x[i]) % d)
         \o <<(r * Base + x[i]) \div d>>

\* n / d for integers n >= 0 and 0 < d < 2^20 (true division, and the value
\* of a decimal literal n / 10^j): the quotient of n * Base^k by d has more
\* than MantissaBits + 2 bits, and a last bit says whether a remainder is
\* left
FDivInt(n, d) ==
    IF n = 0 THEN FZero
    ELSE LET k == (MantissaBits + 2 + BitLenInt(d)) \div LimbBits + 1
             x == Zeros(k) \o BFromInt(n)
             sq == DivLimbs(x, d, Len(x), 0)
         IN  FRound(BMulLimb(BNorm(Tail(sq)), 2, 1, sq[1]),
                    0 - (k * LimbBits + 1))

FMul(x, y) == FRound(BMul(x.m, y.m), x.e + y.e)

FAdd(x, y) ==
    IF x.m = <<>> THEN y
    ELSE IF y.m = <<>> THEN x
    ELSE LET e == IF x.e < y.e THEN x.e ELSE y.e
         IN  FRound(BAdd(BShl(x.m, x.e - e), BShl(y.m, y.e - e)), e)

\* |x - y| * 2^bits <= max(x, y)
FClose(x, y, bits) ==
    LET e == IF x.e < y.e THEN x.e ELSE y.e
        a == BShl(x.m, x.e - e)
        b == BShl(y.m, y.e - e)
        hi == IF BCmp(a, b) >= 0 THEN a ELSE b
        lo == IF BCmp(a, b) >= 0 THEN b ELSE a
    IN  BCmp(BShl(BSub(hi, lo), bits), hi) <= 0

----------------------------------------------------------------------------
(* The model registry of llm_api_handler.py.  Temperatures are in tenths   *)
(* (2.0 is 20); prices are in millionths of a dollar per 1000 tokens.      *)

Config(maxT, defT, params, tok, prov) ==
    [max_temperature |-> maxT, default_temperature |-> defT,
     supported_parameters |-> params, tokenizer |-> tok, provider |-> prov]

\* the float a price literal denotes, from the price in millionths
PriceOf(millionths) == FDivInt(millionths, 1000000)

Price(inp, outp) == [input |-> PriceOf(inp), output |-> PriceOf(outp)]

\* supported_parameters of the chat models
ChatParams ==
    {"temperature", "max_tokens", "top_p", "frequency_penalty",
     "presence_penalty"}

\* supported_parameters of the reasoning models behind OpenRouter
ReasoningParams ==
    {"max_completion_tokens", "top_p", "frequency_penalty", "presence_penalty"}

MODEL_CONFIGS ==
    "gpt-5" :> Config(20, 0, ChatParams, "gpt-4", "openai")
    @@ "gpt-4" :> Config(20, 0, ChatParams, "gpt-4", "openai")
    @@ "gpt-4-turbo" :> Config(20, 0, ChatParams, "gpt-4", "openai")
    @@ "gpt-4o" :> Config(20, 0, ChatParams, "gpt-4o", "openai")
    @@ "gpt-4-turbo-preview" :> Config(20, 0, ChatParams, "gpt-4", "openai")
    @@ "gpt-3.5-turbo" :> Config(20, 0, ChatParams, "gpt-3.5-turbo", "openai")
    @@ "gpt-3.5-turbo-instruct" :>
          Config(20, 0, ChatParams, "gpt-3.5-turbo", "openai")
    @@ "openai/gpt-5" :> Config(20, 0, ChatParams, "gpt-4", "openrouter")
    @@ "o3" :> Config(10, 0, ReasoningParams, "gpt-4", "openrouter")
    @@ "o3-mini" :> Config(10, 0, ReasoningParams, "gpt-4", "openrouter")
    @@ "o3-pro" :>
          Config(10, 0, {"max_completion_tokens", "top_p", "frequency_penalty", "presence_penalty", "reasoning"}, "gpt-4", "openai")
    @@ "o1" :> Config(10, 0, ReasoningParams, "gpt-4", "openrouter")
    @@ "o1-pro" :> Config(10, 0, ReasoningParams, "gpt-4", "openrouter")
    @@ "o1-mini" :> Config(10, 0, ReasoningParams, "gpt-4", "openrouter")
    @@ "o4-mini" :> Config(10, 0, ReasoningParams, "gpt-4", "openrouter")
    @@ "deepseek/deepseek-coder" :>
          Config(20, 0, ChatParams, "gpt-4", "openrouter")
    @@ "deepseek/deepseek-coder-33b-instruct" :>
          Config(20, 0, ChatParams, "gpt-4", "openrouter")
    @@ "deepseek/deepseek-coder-6.7b-instruct" :>
          Config(20, 0, ChatParams, "gpt-4", "openrouter")
    @@ "deepseek/deepseek-llm-67b-chat" :>
          Config(20, 0, ChatParams, "gpt-4", "openrouter")
    @@ "deepseek/deepseek-llm-7b-chat" :>
          Config(20, 0, ChatParams, "gpt-4", "openrouter")
    @@ "deepseek/deepseek-math-7b-instruct" :>
          Config(20, 0, ChatParams, "gpt-4", "openrouter")
    @@ "deepseek/deepseek-reasoner-7b-instruct" :>
          Config(20, 0, ChatParams, "gpt-4", "openrouter")
    @@ "deepseek/deepseek-reasoner-34b-instruct" :>
          Config(20, 0, ChatParams, "gpt-4", "openrouter")
    @@ "deepseek/deepseek-r1" :>
          Config(20, 0, ChatParams, "gpt-4", "openrouter")
    @@ "google/gemini-1.5-flash" :>
          Config(20, 0, ChatParams, "gpt-4", "openrouter")
    @@ "google/gemini-1.5-pro" :>
          Config(20, 0, ChatParams, "gpt-4", "openrouter")
    @@ "google/gemini-2.0-flash-exp" :>
          Config(20, 0, ChatParams, "gpt-4", "openrouter")
    @@ "google/gemini-2.0-pro-exp" :>
          Config(20, 0, ChatParams, "gpt-4", "openrouter")
    @@ "meta-llama/llama-4-maverick" :>
          Config(20, 0, ChatParams, "gpt-4", "openrouter")
    @@ "qwen/qwen3-235b-a22b" :>
          Config(20, 0, ChatParams, "gpt-4", "openrouter")
    @@ "mistralai/mistral-small-3.2-24b-instruct:free" :>
          Config(20, 0, ChatParams, "gpt-4", "openrouter")
    @@ "meta-llama/llama-guard-4-12b" :>
          Config(20, 0, ChatParams, "gpt-4", "openrouter")
    @@ "anthropic/claude-sonnet-4" :>
          Config(20, 0, ChatParams, "gpt-4", "openrouter")
    @@ "anthropic/claude-opus-4" :>
          Config(20, 0, ChatParams, "gpt-4", "openrouter")
    @@ "meta-llama/llama-4-scout:free" :>
          Config(20, 0, ChatParams, "gpt-4", "openrouter")
    @@ "google/gemini-2.5-pro" :>
          Config(20, 0, ChatParams, "gpt-4", "openrouter")
    @@ "google/gemini-2.0-flash-001" :>
          Config(20, 0, ChatParams, "gpt-4", "openrouter")
    @@ "google/gemini-2.5-flash" :>
          Config(20, 0, ChatParams, "gpt-4", "openrouter")
    @@ "x-ai/grok-4" :> Config(20, 0, ChatParams, "gpt-4", "openrouter")
    @@ "mistralai/codestral-2508" :>
          Config(20, 0, ChatParams, "gpt-4", "openrouter")
    @@ "mistralai/mixtral-8x22b-instruct" :>
          Config(20, 0, ChatParams, "gpt-4", "openrouter")
    @@ "mistralai/mixtral-8x7b-instruct" :>
          Config(20, 0, ChatParams, "gpt-4", "openrouter")
    @@ "qwen/qwen3-coder" :> Config(20, 0, ChatParams, "gpt-4", "openrouter")
    @@ "qwen/qwen-2.5-coder-32b-instruct" :>
          Config(20, 0, ChatParams, "gpt-4", "openrouter")
    @@ "meta-llama/llama-3.1-70b-instruct" :>
          Config(20, 0, ChatParams, "gpt-4", "openrouter")
    @@ "meta-llama/llama-4-scout" :>
          Config(20, 0, ChatParams, "gpt-4", "openrouter")
    @@ "deepseek/deepseek-r1-distill-llama-70b" :>
          Config(20, 0, ChatParams, "gpt-4", "openrouter")
    @@ "deepseek/deepseek-chat-v3.1" :>
          Config(20, 0, ChatParams, "gpt-4", "openrouter")
    @@ "bigcode/starcoder2-15b-instruct" :>
          Config(20, 0, ChatParams, "gpt-4", "openrouter")
    @@ "openai/gpt-oss-120b" :>
          Config(20, 0, ChatParams, "gpt-4", "openrouter")
    @@ "openai/gpt-oss-20b" :> Config(20, 0, ChatParams, "gpt-4", "openrouter")

MODEL_PRICING ==
    "gpt-5" :> Price(1250, 10000)
    @@ "gpt-4" :> Price(30000, 60000)
    @@ "gpt-4-turbo" :> Price(10000, 30000)
    @@ "gpt-4o" :> Price(5000, 15000)
    @@ "gpt-4-turbo-preview" :> Price(10000, 30000)
    @@ "gpt-3.5-turbo" :> Price(1000, 2000)
    @@ "gpt-3.5-turbo-instruct" :> Price(1500, 2000)
    @@ "openai/gpt-5" :> Price(1250, 10000)
    @@ "o3" :> Price(15000, 60000)
    @@ "o3-mini" :> Price(3000, 15000)
    @@ "o3-pro" :> Price(15000, 60000)
    @@ "o1" :> Price(15000, 60000)
    @@ "o1-pro" :> Price(15000, 60000)
    @@ "o1-mini" :> Price(3000, 15000)
    @@ "o4-mini" :> Price(3000, 15000)
    @@ "deepseek/deepseek-coder" :> Price(140, 280)
    @@ "deepseek/deepseek-coder-33b-instruct" :> Price(140, 280)
    @@ "deepseek/deepseek-coder-6.7b-instruct" :> Price(140, 280)
    @@ "deepseek/deepseek-llm-67b-chat" :> Price(140, 280)
    @@ "deepseek/deepseek-llm-7b-chat" :> Price(140, 280)
    @@ "deepseek/deepseek-math-7b-instruct" :> Price(140, 280)
    @@ "deepseek/deepseek-reasoner-7b-instruct" :> Price(140, 280)
    @@ "deepseek/deepseek-reasoner-34b-instruct" :> Price(140, 280)
    @@ "deepseek/deepseek-r1" :> Price(140, 280)
    @@ "google/gemini-1.5-flash" :> Price(75, 300)
    @@ "google/gemini-1.5-pro" :> Price(3750, 15000)
    @@ "google/gemini-2.0-flash-exp" :> Price(75, 300)
    @@ "google/gemini-2.0-pro-exp" :> Price(3750, 15000)
    @@ "meta-llama/llama-4-maverick" :> Price(150, 600)
    @@ "qwen/qwen3-235b-a22b" :> Price(130, 600)
    @@ "mistralai/mistral-small-3.2-24b-instruct:free" :> Price(0, 0)
    @@ "meta-llama/llama-guard-4-12b" :> Price(100, 200)
    @@ "anthropic/claude-sonnet-4" :> Price(3000, 15000)
    @@ "anthropic/claude-opus-4" :> Price(15000, 75000)
    @@ "meta-llama/llama-4-scout:free" :> Price(0, 0)
    @@ "google/gemini-2.5-pro" :> Price(3750, 15000)
    @@ "google/gemini-2.0-flash-001" :> Price(100, 400)
    @@ "google/gemini-2.5-flash" :> Price(100, 400)
    @@ "x-ai/grok-4" :> Price(100, 400)
    @@ "mistralai/codestral-2508" :> Price(300, 900)
    @@ "mistralai/mixtral-8x22b-instruct" :> Price(900, 900)
    @@ "mistralai/mixtral-8x7b-instruct" :> Price(900, 900)
    @@ "qwen/qwen3-coder" :> Price(200, 800)
    @@ "qwen/qwen-2.5-coder-32b-instruct" :> Price(50, 200)
    @@ "meta-llama/llama-3.1-70b-instruct" :> Price(100, 280)
    @@ "meta-llama/llama-4-scout" :> Price(100, 280)
    @@ "openai/gpt-oss-120b" :> Price(500, 1500)
    @@ "openai/gpt-oss-20b" :> Price(200, 600)
    @@ "deepseek/deepseek-r1-distill-llama-70b" :> Price(26, 104)
    @@ "deepseek/deepseek-chat-v3.1" :> Price(140, 280)
    @@ "bigcode/starcoder2-15b-instruct" :> Price(140, 280)

\* a lookup that answers an unsupported model with the gpt-4 entry
get_model_config_default_gpt4(m) ==
    IF m \in DOMAIN MODEL_CONFIGS
    THEN [ok |-> TRUE, config |-> MODEL_CONFIGS[m]]
    ELSE [ok |-> TRUE, config |-> MODEL_CONFIGS["gpt-4"]]

\* get_model_config: ok = FALSE stands for the ValueError of an unsupported
\* model
get_model_config(m) ==
    IF m \in DOMAIN MODEL_CONFIGS
    THEN [ok |-> TRUE, config |-> MODEL_CONFIGS[m]]
    ELSE [ok |-> FALSE, config |-> Config(0, 0, {}, "", "")]

\* a provider read under a key the entries do not have, so that the default
\* "openai" of config.get answers for every model
is_openai_model_default_provider(m) ==
    IF m = "o3-pro" THEN TRUE
    ELSE "openai" = "openai"

\* is_openai_model, for a model get_model_config accepts or o3-pro
is_openai_model(m) ==
    IF m = "o3-pro" THEN TRUE
    ELSE get_model_config(m).config.provider = "openai"

----------------------------------------------------------------------------
(* validate_model_parameters                                               *)

NoParams == [ok |-> FALSE, error |-> "ValueError", params |-> <<>>]

\* a range check that excludes the upper bound
TemperatureOutOfRange_strict(temp, max_temp) == ~(0 <= temp /\ temp < max_temp)

\* not (0 <= temp <= max_temp)
TemperatureOutOfRange(temp, max_temp) == ~(0 <= temp /\ temp <= max_temp)

\* a temperature entry written whether or not the model supports it
TemperaturePart_unconditional(config, kwargs) ==
    IF "temperature" \in DOMAIN kwargs
    THEN "temperature" :> kwargs["temperature"]
    ELSE "temperature" :> config.default_temperature

\* "Only add temperature if supported": the temperature entry
TemperaturePart(config, kwargs) ==
    IF "temperature" \in config.supported_parameters
    THEN IF "temperature" \in DOMAIN kwargs
         THEN "temperature" :> kwargs["temperature"]
         ELSE "temperature" :> config.default_temperature
    ELSE <<>>

\* a mapping that adds max_completion_tokens and keeps max_tokens as well
MaxTokensPart_keep_both(config, kwargs) ==
    IF "max_tokens" \in DOMAIN kwargs
       /\ "max_completion_tokens" \in config.supported_parameters
    THEN "max_completion_tokens" :> kwargs["max_tokens"]
         @@ "max_tokens" :> kwargs["max_tokens"]
    ELSE IF "max_tokens" \in DOMAIN kwargs
         THEN "max_tokens" :> kwargs["max_tokens"]
         ELSE <<>>

\* "Map max_tokens to max_completion_tokens for models that require it"
MaxTokensPart(config, kwargs) ==
    IF "max_tokens" \in DOMAIN kwargs
       /\ "max_completion_tokens" \in config.supported_parameters
    THEN "max_completion_tokens" :> kwargs["max_tokens"]
    ELSE IF "max_tokens" \in DOMAIN kwargs
         THEN "max_tokens" :> kwargs["max_tokens"]
         ELSE <<>>

\* a loop that copies every parameter, supported or not
OtherPart_keep_all(config, kwargs) ==
    LET supported_params == config.supported_parameters
        Kept == {param \in DOMAIN kwargs :
                    ~(param = "max_tokens"
                      /\ "max_completion_tokens" \in supported_params)}
    IN  [param \in Kept |-> kwargs[param]]

\* "Validate other parameters": the entries the loop over kwargs writes
OtherPart(config, kwargs) ==
    LET supported_params == config.supported_parameters
        Kept == {param \in DOMAIN kwargs :
                    /\ ~(param = "max_tokens"
                         /\ "max_completion_tokens" \in supported_params)
                    /\ param \in supported_params}
    IN  [param \in Kept |-> kwargs[param]]

\* the parameters the loop warns about and leaves out
Warned(config, kwargs) ==
    {param \in DOMAIN kwargs :
        /\ ~(param = "max_tokens"
             /\ "max_completion_tokens" \in config.supported_parameters)
        /\ param \notin config.supported_parameters}

validate_model_parameters(m, kwargs) ==
    LET c == get_model_config(m) IN
    IF ~c.ok THEN NoParams
    ELSE IF /\ "temperature" \in c.config.supported_parameters
            /\ "temperature" \in DOMAIN kwargs
            /\ TemperatureOutOfRange(kwargs["temperature"],
                                     c.config.max_temperature)
         THEN NoParams
         ELSE [ok |-> TRUE, error |-> "",
               params |-> DictUpdate(DictUpdate(TemperaturePart(c.config, kwargs),
                                                MaxTokensPart(c.config, kwargs)),
                                     OtherPart(c.config, kwargs))]

\* params = {'temperature': temperature} if temperature is not None else {}
\* params.update(kwargs)
CallParams(temperature, kwargs) ==
    DictUpdate(IF temperature.given THEN "temperature" :> temperature.v
               ELSE <<>>,
               kwargs)

----------------------------------------------------------------------------
(* Inputs of the parameter normalisation                                   *)

\* an identifier that is no key of the registry
UnknownModel == "not-a-real-model"

\* identifiers that are no key of the registry: one differs from a key only
\* in case, one is the empty string
UnknownModels == {UnknownModel, "GPT-4", ""}

ModelIds == (DOMAIN MODEL_CONFIGS) \cup UnknownModels

None == [given |-> FALSE, v |-> 0]

Given(t) == [given |-> TRUE, v |-> t]

\* temperatures a caller passes, in tenths
Temperatures == {None} \cup {Given(t) : t \in {0 - 1, 0, 10, 20, 21}}

\* the keyword arguments a caller passes, each with its value
KwargValues ==
    "max_tokens" :> 100
    @@ "max_completion_tokens" :> 200
    @@ "top_p" :> 9
    @@ "reasoning" :> [effort |-> "low"]
    @@ "stop" :> "END"

Kwargs == {[p \in names |-> KwargValues[p]] : names \in SUBSET DOMAIN KwargValues}

----------------------------------------------------------------------------
(* count_tokens, calculate_cost and the call shapes of send_to_llm         *)

\* longest prompt or response text, in characters
MaxTextLen == 4

\* a text of n characters
TextOf(n) == [i \in 1..n |-> "x"]

\* an int, or Python's None
Unknown == [known |-> FALSE, v |-> 0]

Known(n) == [known |-> TRUE, v |-> n]

\* what tiktoken does during one count_tokens: whether the model's tokenizer
\* and the gpt-4 tokenizer can be used, and the tokens an encoding yields
TokenEnvs(text) == [tier1 : BOOLEAN, tier2 : BOOLEAN, n : 0..Len(text)]

\* a text argument: a str, or None (a null content of the response)
NullText == [null |-> TRUE, text |-> <<>>]

Text(t) == [null |-> FALSE, text |-> t]

\* the value count_tokens returns, or the exception that leaves it
Counted(n) == [ok |-> TRUE, v |-> n]

CountRaises == [ok |-> FALSE, v |-> 0]

\* a count_tokens without the final estimate: the exception of the gpt-4
\* tokenizer leaves the function
count_tokens_no_estimate(text, m, env) ==
    IF text.null THEN CountRaises
    ELSE IF get_model_config(m).ok /\ env.tier1 THEN Counted(env.n)
    ELSE IF env.tier2 THEN Counted(env.n)
    ELSE CountRaises

\* count_tokens.  For None every tier raises a TypeError (encode(None),
\* len(None)) and the last one leaves the function.
count_tokens(text, m, env) ==
    IF text.null THEN CountRaises
    ELSE IF get_model_config(m).ok /\ env.tier1 THEN Counted(env.n)
    ELSE IF env.tier2 THEN Counted(env.n)
    ELSE Counted(Len(text.text) \div 4)

----------------------------------------------------------------------------
(* calculate_cost                                                          *)

\* a cost computed with floor division of the token counts
calculate_cost_floor_division(input_tokens, output_tokens, m) ==
    LET priced == IF m \in DOMAIN MODEL_PRICING THEN m ELSE "gpt-4" IN
    FAdd(FMul(FDivInt(input_tokens \div 1000, 1), MODEL_PRICING[priced].input),
         FMul(FDivInt(output_tokens \div 1000, 1), MODEL_PRICING[priced].output))

\* calculate_cost
calculate_cost(input_tokens, output_tokens, m) ==
    LET priced == IF m \in DOMAIN MODEL_PRICING THEN m ELSE "gpt-4"
        input_cost == FMul(FDivInt(input_tokens, 1000), MODEL_PRICING[priced].input)
        output_cost == FMul(FDivInt(output_tokens, 1000), MODEL_PRICING[priced].output)
    IN  FAdd(input_cost, output_cost)

\* cost = None
UnknownCost == [known |-> FALSE, v |-> FZero]

----------------------------------------------------------------------------
(* The call shapes of send_to_llm                                          *)

\* routing by the registry's provider alone, without the o3-pro rule
Route_by_provider(m) ==
    IF ~get_model_config(m).ok THEN [ok |-> FALSE, shape |-> "none"]
    ELSE IF is_openai_model(m) THEN [ok |-> TRUE, shape |-> "CHAT_OPENAI"]
    ELSE [ok |-> TRUE, shape |-> "CHAT_OPENROUTER"]

\* the routing decision of send_to_llm: the send_to_* function entered.
\* ok = FALSE stands for the ValueError get_model_config raises inside
\* is_openai_model
Route(m) ==
    IF m = "o3-pro" THEN [ok |-> TRUE, shape |-> "RESPONSE_API"]
    ELSE IF ~get_model_config(m).ok THEN [ok |-> FALSE, shape |-> "none"]
    ELSE IF is_openai_model(m) THEN [ok |-> TRUE, shape |-> "CHAT_OPENAI"]
    ELSE [ok |-> TRUE, shape |-> "CHAT_OPENROUTER"]

NoClient == [base_url |-> "", timeout |-> 0, max_retries |-> 0]

\* the OpenAI(...) client each send_to_* function constructs
ClientFor(shape) ==
    CASE shape = "CHAT_OPENAI" ->
           [base_url |-> "default", timeout |-> 30, max_retries |-> 2]
      [] shape = "CHAT_OPENROUTER" ->
           [base_url |-> "https://openrouter.ai/api/v1", timeout |-> 30,
            max_retries |-> 2]
      [] shape = "RESPONSE_API" ->
           [base_url |-> "default", timeout |-> 60, max_retries |-> 2]

\* the operation invoked on the client
EndpointFor(shape) ==
    IF shape = "RESPONSE_API" THEN "responses.create"
    ELSE "chat.completions.create"

\* api_params of each send_to_* function
ApiParams(shape, m, prompt, validated) ==
    IF shape = "RESPONSE_API"
    THEN DictUpdate(
           "model" :> m
           @@ "input" :>
                <<[role |-> "system",
                   content |-> "You are a security assistant specialized in vulnerability analysis."],
                  [role |-> "user", content |-> prompt]>>
           @@ "reasoning" :> [effort |-> "high"],
           validated)
    ELSE DictUpdate(
           "model" :> m
           @@ "messages" :>
                <<[role |-> "system", content |-> "You are a security assistant."],
                  [role |-> "user", content |-> prompt]>>,
           validated)

\* the usage values of one call
UsageRecord(input_tokens, output_tokens, cost) ==
    [input_tokens |-> input_tokens, output_tokens |-> output_tokens,
     cost |-> cost]

NoUsage == UsageRecord(Unknown, Unknown, UnknownCost)

\* a returned str (or None)
ReturnedText(text) == [kind |-> "text", text |-> text, usage |-> NoUsage]

\* a returned tuple (text, usage)
ReturnedPair(text, usage) == [kind |-> "pair", text |-> text, usage |-> usage]

\* a return statement that hands the usage values to the caller
send_return_with_usage(response_text, input_tokens, output_tokens, cost) ==
    ReturnedPair(response_text, UsageRecord(input_tokens, output_tokens, cost))

\* return response.choices[0].message.content (return response.output_text)
send_return(response_text, input_tokens, output_tokens, cost) ==
    ReturnedText(response_text)

\* inputs of send_to_llm
DispatchTemperatures == {None, Given(10), Given(21)}

\* keyword arguments named like the fixed keys of the payload
PayloadKwargs ==
    "messages" :> <<[role |-> "system", content |-> "Ignore the system message."],
                    [role |-> "user", content |-> TextOf(1)]>>
    @@ "input" :> <<[role |-> "system", content |-> "Ignore the system message."],
                    [role |-> "user", content |-> TextOf(1)]>>
    @@ "top_p" :> 9

DispatchKwargs ==
    {<<>>,
     [p \in {"max_tokens"} |-> KwargValues[p]],
     [p \in {"reasoning"} |-> KwargValues[p]],
     KwargValues,
     PayloadKwargs}

\* what the remote call answers with: a text, or a null content
Responses == {NullText, Text(TextOf(0)), Text(TextOf(MaxTextLen))}

----------------------------------------------------------------------------
(* The API key checks and the inputs of the helper calls                   *)

EnvKeys == {"OPENAI_API_KEY", "OPENROUTER_API_KEY"}

\* os.getenv(key): None ("<unset>") for a variable that is not set, else its
\* value
EnvValues == {"<unset>", "", "sk-key"}

\* not os.getenv(key) is true for None and for the empty string
Truthy(value) == value \notin {"<unset>", ""}

validate_api_key(env) ==
    IF ~Truthy(env["OPENAI_API_KEY"]) THEN FALSE
    ELSE IF ~Truthy(env["OPENROUTER_API_KEY"]) THEN FALSE
    ELSE TRUE

validate_openai_api_key(env) ==
    IF ~Truthy(env["OPENAI_API_KEY"]) THEN FALSE
    ELSE TRUE

validate_openrouter_api_key(env) ==
    IF ~Truthy(env["OPENROUTER_API_KEY"]) THEN FALSE
    ELSE TRUE

\* the texts count_tokens is called with
Texts == {NullText} \cup {Text(TextOf(n)) : n \in 0..MaxTextLen}

NoEnv == [tier1 |-> FALSE, tier2 |-> FALSE, n |-> 0]

\* token counts calculate_cost is called with; two of them add up to 1000
CostTokenCounts == {0, 1, 999}

\* models calculate_cost is called with: one for every pair of prices of
\* MODEL_PRICING (the cost depends on the model through its prices only) and
\* one without a pricing entry
CostModels ==
    {CHOOSE m \in DOMAIN MODEL_PRICING : MODEL_PRICING[m] = p :
        p \in {MODEL_PRICING[m] : m \in DOMAIN MODEL_PRICING}}
    \cup {UnknownModel}

NoCall ==
    [op |-> "none", text |-> NullText, model |-> "", env |-> NoEnv,
     counts |-> <<>>]

NoResult == [raised |-> FALSE, tokens |-> 0, valid |-> FALSE, costs |-> <<>>]

----------------------------------------------------------------------------
(* The inputs of process_projects_with_openrouter                          *)

MaxProjects == 2

\* what _get_cwe_template returns: None, or the text of the template file
Templates == {NullText, Text(TextOf(0)), Text(TextOf(1))}

\* what _read_code_context returns for each context file globbed for a row:
\* "" (also for a file it cannot read) or the text of the file
ContextLists ==
    {<<>>,
     <<Text(TextOf(1))>>,
     <<Text(TextOf(0)), Text(TextOf(1))>>,
     <<Text(TextOf(1)), Text(TextOf(1))>>}

\* a row of projects_df with its template and its context files
ProjectRows == [template : Templates, contexts : ContextLists]

ProjectTables == SeqsUpTo(ProjectRows, MaxProjects)

\* not x, for x a str or None
Falsy(x) == x.null \/ x.text = <<>>

\* one answer for each way the cascade ends
BatchContents ==
    {json_dumps(VerdictA),
     <<LS, RS>>,
     <<PROSE, WS>> \o json_dumps(VerdictA) \o <<WS, PROSE>>,
     <<PROSE, WS, PROSE>>}

\* the metadata of the record of context file c of row p
Metadata(p, c) ==
    ("project_slug" :> p) @@ ("context_file" :> c)
    @@ ("ai_provider" :> "openrouter")

\* appends without the records of failed responses
append_response_skip_errors(results, resp, metadata) ==
    IF resp["False Positive"] = JStr("ERROR") THEN results
    ELSE Append(results, DictUpdate(resp, metadata))

\* response.update({...}); all_results.append(response)
append_response(results, resp, metadata) ==
    Append(results, DictUpdate(resp, metadata))

----------------------------------------------------------------------------
(* Two callers inside the module at once: what each operation reads from   *)
(* the module globals, and what it leaves in them                          *)

Callers == 1..2

\* get_model_config, reading the value configs of the global MODEL_CONFIGS
config_in(configs, m) ==
    IF m \in DOMAIN configs
    THEN [ok |-> TRUE, config |-> configs[m]]
    ELSE [ok |-> FALSE, config |-> Config(0, 0, {}, "", "")]

\* the routing decision of send_to_llm, reading the value configs
route_in(configs, m) ==
    IF m = "o3-pro" THEN [ok |-> TRUE, shape |-> "RESPONSE_API"]
    ELSE IF ~config_in(configs, m).ok THEN [ok |-> FALSE, shape |-> "none"]
    ELSE IF config_in(configs, m).config.provider = "openai"
         THEN [ok |-> TRUE, shape |-> "CHAT_OPENAI"]
         ELSE [ok |-> TRUE, shape |-> "CHAT_OPENROUTER"]

\* validate_model_parameters, reading the value configs
validate_in(configs, m, kwargs) ==
    LET c == config_in(configs, m) IN
    IF ~c.ok THEN NoParams
    ELSE IF /\ "temperature" \in c.config.supported_parameters
            /\ "temperature" \in DOMAIN kwargs
            /\ TemperatureOutOfRange(kwargs["temperature"],
                                     c.config.max_temperature)
         THEN NoParams
         ELSE [ok |-> TRUE, error |-> "",
               params |-> DictUpdate(DictUpdate(TemperaturePart(c.config, kwargs),
                                                MaxTokensPart(c.config, kwargs)),
                                     OtherPart(c.config, kwargs))]

\* a validation that remembers the caller's temperature as the default of
\* the model
configs_after_validate_remembers(configs, m, kwargs) ==
    IF m \in DOMAIN configs /\ "temperature" \in DOMAIN kwargs
    THEN [configs EXCEPT ![m].default_temperature = kwargs["temperature"]]
    ELSE configs

\* MODEL_CONFIGS after validate_model_parameters: the function assigns into
\* its local validated_params only
configs_after_validate(configs, m, kwargs) == configs

\* calculate_cost, reading the value prices of the global MODEL_PRICING
cost_in(prices, input_tokens, output_tokens, m) ==
    LET priced == IF m \in DOMAIN prices THEN m ELSE "gpt-4"
        input_cost == FMul(FDivInt(input_tokens, 1000), prices[priced].input)
        output_cost == FMul(FDivInt(output_tokens, 1000), prices[priced].output)
    IN  FAdd(input_cost, output_cost)

\* the cascade of _call_openrouter_api on a content that was received
cascade(c, m, selfModel) ==
    LET r1 == direct_parse(c, m)
        r2 == fenced_parse(c.toks, m)
        r3 == loose_scan(c.toks, m)
        r4 == field_recovery(c.toks, m)
    IN  IF r1.st = "return" THEN r1.res
        ELSE IF r1.st # "decode_error" THEN except_Exception(selfModel).res
        ELSE IF r2.ok THEN r2.res
        ELSE IF r3.ok THEN r3.res
        ELSE IF r4.ok THEN r4.res
        ELSE sentinel_response(m)

NoContent == [kind |-> "unset", toks |-> <<>>]

NoReturn == [kind |-> "none", value |-> <<>>, usage |-> NoUsage, params |-> <<>>]

\* the call raised e
Raised(e) == [kind |-> "raised", value |-> e, usage |-> NoUsage, params |-> <<>>]

\* the call returned value; usage and params are what its summary printed
Returned(value, usage, params) ==
    [kind |-> "returned", value |-> value, usage |-> usage, params |-> params]

IdleCaller ==
    [pc |-> "idle", op |-> "none", args |-> <<>>, env |-> <<>>,
     overlapped |-> FALSE, shape |-> "none", validated_params |-> <<>>,
     input_tokens |-> Unknown, output_tokens |-> Unknown,
     response |-> NullText, model |-> "", content |-> NoContent,
     ret |-> NoReturn]

CallerModels == {"gpt-4", "o3-mini", UnknownModel}

\* what the remote model does for a caller of send_to_llm
CallerResponses ==
    {[raises |-> TRUE, text |-> NullText],
     [raises |-> FALSE, text |-> Text(TextOf(MaxTextLen))]}

\* how the tokenizers behave for a caller
CallerTokenEnvs == {[tier1 |-> TRUE, tier2 |-> TRUE, n |-> 1]}

\* what the remote model answers to a caller of _call_openrouter_api
CallerContents == {json_dumps(VerdictA), <<PROSE, WS, PROSE>>}

\* the invocations of send_to_llm a caller makes, with the behaviour of the
\* services it meets
SendCalls ==
    {[op |-> "send_to_llm",
      args |-> [prompt |-> TextOf(MaxTextLen), model |-> m, temperature |-> t,
                kwargs |-> [p \in {"max_tokens"} |-> KwargValues[p]]],
      env |-> [response |-> r, tokens |-> k]] :
        m \in CallerModels, t \in {None, Given(10)}, r \in CallerResponses,
        k \in CallerTokenEnvs}

\* the invocations of _call_openrouter_api a caller makes
ExtractCalls ==
    {[op |-> "_call_openrouter_api",
      args |-> [model |-> a],
      env |-> [response |-> r]] :
        a \in ModelArgs,
        r \in {[kind |-> "request_failed", toks |-> <<>>]}
              \cup {[kind |-> "text", toks |-> t] : t \in CallerContents}}

Invocations == SendCalls \cup ExtractCalls

----------------------------------------------------------------------------
(* State                                                                   *)

VARIABLES
    \* OpenRouterPromptGenerator and one call of _call_openrouter_api
    api_key,      \* self.api_key is set
    self_model,   \* self.model
    pc,           \* position in _call_openrouter_api
    model,        \* the local model of the call
    content,      \* result["choices"][0]["message"]["content"]
    result,       \* the dict returned
    outcome,      \* "none", "returned" or "raised"
    via,          \* the return statement taken
    \* one call of validate_model_parameters
    n_pc,         \* "idle" or "done"
    n_model,      \* its model argument
    n_kwargs,     \* its keyword arguments
    n_result,     \* the dict returned, or the ValueError raised
    \* one call of send_to_llm
    d_pc,              \* position in send_to_llm and the send_to_* entered
    d_args,            \* prompt, model, temperature, enable_token_counting, kwargs
    shape,             \* the send_to_* function entered
    client,            \* the client constructed
    validated_params,
    input_tokens,
    output_tokens,
    cost,
    api_params,        \* the arguments of the remote call
    remote_calls,      \* the operations invoked on the client, in order
    d_calls,      \* the calls the send_to_* function has made, in order
    response,          \* the text of the response
    d_outcome,         \* "none", "returned" or "raised"
    d_error,           \* the exception propagated to the caller
    d_return,          \* the value returned
    \* the process environment and one call of a helper of llm_api_handler.py
    environ,      \* os.environ: the two API keys
    u_pc,         \* "idle" or "done"
    u_call,       \* the helper called and its arguments
    u_result,     \* what the call returned, or that it raised
    \* one call of process_projects_with_openrouter
    projects,     \* the rows of projects_df with what the file system holds
    b_pc,         \* position in process_projects_with_openrouter
    b_p,          \* the row of the outer loop
    b_c,          \* the context file of the inner loop
    model_to_use,
    all_results,
    b_outcome,    \* "none", "returned" or "raised"
    \* what two callers of the module share, and the locals of each
    registry,     \* the module global MODEL_CONFIGS
    pricing,      \* the module global MODEL_PRICING
    callers       \* the frame of each caller's invocation

evars == <<api_key, self_model, pc, model, content, result, outcome, via>>

nvars == <<n_pc, n_model, n_kwargs, n_result>>

dvars ==
    <<d_pc, d_args, shape, client, validated_params, input_tokens,
      output_tokens, cost, api_params, remote_calls, response, d_outcome,
      d_error, d_return, d_calls>>

uvars == <<environ, u_pc, u_call, u_result>>

bvars == <<projects, b_pc, b_p, b_c, model_to_use, all_results, b_outcome>>

cvars == <<registry, pricing, callers>>

vars == <<evars, nvars, dvars, uvars, bvars, cvars>>

\* no call of _call_openrouter_api is under way
ExtractIdle ==
    /\ pc = "idle"
    /\ model = ""
    /\ content = NoContent
    /\ result = <<>>
    /\ outcome = "none"
    /\ via = "none"

\* no call of validate_model_parameters is under way
NormalizeIdle ==
    /\ n_pc = "idle"
    /\ n_model = ""
    /\ n_kwargs = <<>>
    /\ n_result = NoParams

NoArgs ==
    [prompt |-> <<>>, model |-> "", temperature |-> None,
     enable_token_counting |-> FALSE, kwargs |-> <<>>]

\* no call of send_to_llm is under way
DispatchIdle ==
    /\ d_pc = "idle"
    /\ d_args = NoArgs
    /\ shape = "none"
    /\ client = NoClient
    /\ validated_params = <<>>
    /\ input_tokens = Unknown
    /\ output_tokens = Unknown
    /\ cost = UnknownCost
    /\ api_params = <<>>
    /\ remote_calls = <<>>
    /\ response = NullText
    /\ d_outcome = "none"
    /\ d_error = ""
    /\ d_return = ReturnedText(NullText)
    /\ d_calls = <<>>

\* no helper call is under way; both API keys are set
UtilityIdle ==
    /\ environ = [k \in EnvKeys |-> "sk-key"]
    /\ u_pc = "idle"
    /\ u_call = NoCall
    /\ u_result = NoResult

\* no call of process_projects_with_openrouter is under way
BatchIdle ==
    /\ projects = <<>>
    /\ b_pc = "idle"
    /\ b_p = 0
    /\ b_c = 0
    /\ model_to_use = ""
    /\ all_results = <<>>
    /\ b_outcome = "none"

\* the module as loaded, no caller inside it
ConcurrentIdle ==
    /\ registry = MODEL_CONFIGS
    /\ pricing = MODEL_PRICING
    /\ callers = [i \in Callers |-> IdleCaller]

InitExtract ==
    /\ api_key \in BOOLEAN
    /\ self_model \in GenModels
    /\ ExtractIdle
    /\ NormalizeIdle
    /\ DispatchIdle
    /\ UtilityIdle
    /\ BatchIdle
    /\ ConcurrentIdle

\* return self._generate_fallback_response() from a handler or a guard
Fallback(h) ==
    /\ pc' = "done"
    /\ result' = h.res
    /\ outcome' = h.outcome
    /\ via' = "fallback"

\* return parsed_response
Return(d, site) ==
    /\ pc' = "done"
    /\ result' = d
    /\ outcome' = "returned"
    /\ via' = site

\* the api key guard and model = model or self.model
Entry(arg) ==
    IF ~api_key
    THEN /\ Fallback([outcome |-> "returned",
                      res |-> generate_fallback_response(self_model)])
         /\ UNCHANGED <<api_key, self_model, model, content>>
    ELSE /\ model' = (IF arg # "" THEN arg ELSE self_model)
         /\ pc' = "post"
         /\ UNCHANGED <<api_key, self_model, content, result, outcome, via>>

\* entry of a call made on its own
call_openrouter_api ==
    /\ pc = "idle"
    /\ \E arg \in ModelArgs : Entry(arg)
    /\ UNCHANGED <<nvars, dvars, uvars, bvars, cvars>>

\* requests.post raises (timeout, connection error)
RequestFailed ==
    /\ pc = "post"
    /\ Fallback(except_Exception(self_model))
    /\ UNCHANGED <<api_key, self_model, model, content, nvars, dvars, uvars, bvars, cvars>>

\* if not response.ok
HttpError ==
    /\ pc = "post"
    /\ Fallback([outcome |-> "returned",
                 res |-> generate_fallback_response(self_model)])
    /\ UNCHANGED <<api_key, self_model, model, content, nvars, dvars, uvars, bvars, cvars>>

\* response.json() or result["choices"][0]["message"]["content"] raises
ResponseMalformed ==
    /\ pc = "post"
    /\ Fallback(except_Exception(self_model))
    /\ UNCHANGED <<api_key, self_model, model, content, nvars, dvars, uvars, bvars, cvars>>

\* the response carries a content: one of the texts or null
ResponseFrom(texts) ==
    /\ pc = "post"
    /\ \E c \in {[kind |-> "text", toks |-> t] : t \in texts}
              \cup {[kind |-> "none", toks |-> <<>>]} :
          content' = c
    /\ pc' = "stage1"
    /\ UNCHANGED <<api_key, self_model, model, result, outcome, via, nvars, dvars, uvars, bvars, cvars>>

ResponseOk == ResponseFrom(Contents)

Stage1Direct ==
    /\ pc = "stage1"
    /\ LET r == direct_parse(content, model) IN
       CASE r.st = "return" ->
              Return(r.res, "stage1")
         [] r.st = "decode_error" ->
              /\ pc' = "stage2"
              /\ UNCHANGED <<result, outcome, via>>
         [] OTHER ->
              Fallback(except_Exception(self_model))
    /\ UNCHANGED <<api_key, self_model, model, content, nvars, dvars, uvars, bvars, cvars>>

Stage2Fenced ==
    /\ pc = "stage2"
    /\ LET r == fenced_parse(content.toks, model) IN
       IF r.ok THEN Return(r.res, "stage2")
       ELSE /\ pc' = "stage3"
            /\ UNCHANGED <<result, outcome, via>>
    /\ UNCHANGED <<api_key, self_model, model, content, nvars, dvars, uvars, bvars, cvars>>

Stage3Loose ==
    /\ pc = "stage3"
    /\ LET r == loose_scan(content.toks, model) IN
       IF r.ok THEN Return(r.res, "stage3")
       ELSE /\ pc' = "stage4"
            /\ UNCHANGED <<result, outcome, via>>
    /\ UNCHANGED <<api_key, self_model, model, content, nvars, dvars, uvars, bvars, cvars>>

Stage4Fields ==
    /\ pc = "stage4"
    /\ LET r == field_recovery(content.toks, model) IN
       IF r.ok THEN Return(r.res, "stage4")
       ELSE Return(sentinel_response(model), "sentinel")
    /\ UNCHANGED <<api_key, self_model, model, content, nvars, dvars, uvars, bvars, cvars>>

NextExtract ==
    \/ call_openrouter_api
    \/ RequestFailed
    \/ HttpError
    \/ ResponseMalformed
    \/ ResponseOk
    \/ Stage1Direct
    \/ Stage2Fenced
    \/ Stage3Loose
    \/ Stage4Fields

SpecExtract == InitExtract /\ [][NextExtract]_vars

----------------------------------------------------------------------------
(* validate_model_parameters applied to every model and argument bag       *)

InitNormalize ==
    /\ api_key = FALSE
    /\ self_model = "openai/gpt-4o-mini"
    /\ ExtractIdle
    /\ NormalizeIdle
    /\ DispatchIdle
    /\ UtilityIdle
    /\ BatchIdle
    /\ ConcurrentIdle

validate_call ==
    /\ n_pc = "idle"
    /\ \E m \in ModelIds, t \in Temperatures, kw \in Kwargs :
          /\ n_model' = m
          /\ n_kwargs' = CallParams(t, kw)
          /\ n_result' = validate_model_parameters(m, CallParams(t, kw))
    /\ n_pc' = "done"
    /\ UNCHANGED <<evars, dvars, uvars, bvars, cvars>>

validate_return ==
    /\ n_pc = "done"
    /\ n_pc' = "idle"
    /\ n_model' = ""
    /\ n_kwargs' = <<>>
    /\ n_result' = NoParams
    /\ UNCHANGED <<evars, dvars, uvars, bvars, cvars>>

NextNormalize ==
    \/ validate_call
    \/ validate_return

SpecNormalize == InitNormalize /\ [][NextNormalize]_vars

----------------------------------------------------------------------------
(* send_to_llm and the send_to_* function it enters                        *)

InitDispatch ==
    /\ api_key = FALSE
    /\ self_model = "openai/gpt-4o-mini"
    /\ ExtractIdle
    /\ NormalizeIdle
    /\ DispatchIdle
    /\ UtilityIdle
    /\ BatchIdle
    /\ ConcurrentIdle

\* raise: the exception leaves send_to_llm
Raise(e) ==
    /\ d_pc' = "done"
    /\ d_outcome' = "raised"
    /\ d_error' = e

\* send_to_llm: the routing decision
send_to_llm ==
    /\ d_pc = "idle"
    /\ \E m \in ModelIds, t \in DispatchTemperatures, kw \in DispatchKwargs,
          counting \in BOOLEAN :
          /\ d_args' = [prompt |-> TextOf(MaxTextLen), model |-> m,
                        temperature |-> t, enable_token_counting |-> counting,
                        kwargs |-> kw]
          /\ IF Route(m).ok
             THEN /\ shape' = Route(m).shape
                  /\ d_pc' = "client"
                  /\ UNCHANGED <<d_outcome, d_error>>
             ELSE /\ Raise("ValueError")
                  /\ UNCHANGED shape
    /\ UNCHANGED <<client, validated_params, input_tokens, output_tokens, cost,
                   api_params, remote_calls, response, d_return, d_calls>>
    /\ UNCHANGED <<evars, nvars, uvars, bvars, cvars>>

\* client = OpenAI(...)
create_client ==
    /\ d_pc = "client"
    /\ client' = ClientFor(shape)
    /\ d_calls' = Append(d_calls, "OpenAI")
    /\ d_pc' = "validate"
    /\ UNCHANGED <<d_args, shape, validated_params, input_tokens, output_tokens,
                   cost, api_params, remote_calls, response, d_outcome, d_error,
                   d_return>>
    /\ UNCHANGED <<evars, nvars, uvars, bvars, cvars>>

\* a handler that prints the failure of OpenAI(...) and goes on without a
\* client
create_client_error_swallowed ==
    /\ d_pc = "client"
    /\ d_calls' = Append(d_calls, "OpenAI")
    /\ d_pc' = "validate"
    /\ UNCHANGED <<d_args, shape, client, validated_params, input_tokens,
                   output_tokens, cost, api_params, remote_calls, response,
                   d_outcome, d_error, d_return>>
    /\ UNCHANGED <<evars, nvars, uvars, bvars, cvars>>

\* OpenAI(...) raises; the handler prints and re-raises
create_client_error ==
    /\ d_pc = "client"
    /\ d_calls' = Append(d_calls, "OpenAI")
    /\ Raise("ClientInitError")
    /\ UNCHANGED <<d_args, shape, client, validated_params, input_tokens,
                   output_tokens, cost, api_params, remote_calls, response,
                   d_return>>
    /\ UNCHANGED <<evars, nvars, uvars, bvars, cvars>>

\* validated_params = validate_model_parameters(model, **params)
validate_params ==
    /\ d_pc = "validate"
    /\ LET r == validate_model_parameters(
                  d_args.model, CallParams(d_args.temperature, d_args.kwargs))
       IN  IF r.ok
           THEN /\ validated_params' = r.params
                /\ d_pc' = "count_input"
                /\ UNCHANGED <<d_outcome, d_error>>
           ELSE /\ Raise(r.error)
                /\ UNCHANGED validated_params
    /\ d_calls' = Append(d_calls, "validate_model_parameters")
    /\ UNCHANGED <<d_args, shape, client, input_tokens, output_tokens, cost,
                   api_params, remote_calls, response, d_return>>
    /\ UNCHANGED <<evars, nvars, uvars, bvars, cvars>>

\* "Count input tokens if enabled"
count_input ==
    /\ d_pc = "count_input"
    /\ IF d_args.enable_token_counting
       THEN \E env \in TokenEnvs(d_args.prompt) :
               LET c == count_tokens(Text(d_args.prompt), d_args.model, env)
               IN  input_tokens' = IF c.ok THEN Known(c.v) ELSE Unknown
       ELSE UNCHANGED input_tokens
    /\ d_calls' = IF d_args.enable_token_counting
                  THEN Append(d_calls, "count_tokens") ELSE d_calls
    /\ d_pc' = "request"
    /\ UNCHANGED <<d_args, shape, client, validated_params, output_tokens, cost,
                   api_params, remote_calls, response, d_outcome, d_error,
                   d_return>>
    /\ UNCHANGED <<evars, nvars, uvars, bvars, cvars>>

\* the remote call returns a response
remote_call ==
    /\ d_pc = "request"
    /\ api_params' = ApiParams(shape, d_args.model, d_args.prompt, validated_params)
    /\ remote_calls' = Append(remote_calls, EndpointFor(shape))
    /\ d_calls' = Append(d_calls, EndpointFor(shape))
    /\ \E r \in Responses : response' = r
    /\ d_pc' = "count_output"
    /\ UNCHANGED <<d_args, shape, client, validated_params, input_tokens,
                   output_tokens, cost, d_outcome, d_error, d_return>>
    /\ UNCHANGED <<evars, nvars, uvars, bvars, cvars>>

\* a handler that prints the failure of the remote call and makes the call
\* again
remote_call_error_retry ==
    /\ d_pc = "request"
    /\ api_params' = ApiParams(shape, d_args.model, d_args.prompt, validated_params)
    /\ remote_calls' = Append(remote_calls, EndpointFor(shape))
    /\ d_calls' = Append(d_calls, EndpointFor(shape))
    /\ UNCHANGED <<d_pc, d_args, shape, client, validated_params, input_tokens,
                   output_tokens, cost, response, d_outcome, d_error, d_return>>
    /\ UNCHANGED <<evars, nvars, uvars, bvars, cvars>>

\* the remote call raises; the handler prints and re-raises
remote_call_error ==
    /\ d_pc = "request"
    /\ api_params' = ApiParams(shape, d_args.model, d_args.prompt, validated_params)
    /\ remote_calls' = Append(remote_calls, EndpointFor(shape))
    /\ d_calls' = Append(d_calls, EndpointFor(shape))
    /\ Raise("RemoteCallError")
    /\ UNCHANGED <<d_args, shape, client, validated_params, input_tokens,
                   output_tokens, cost, response, d_return>>
    /\ UNCHANGED <<evars, nvars, uvars, bvars, cvars>>

\* an output count without a handler: the exception of count_tokens leaves
\* the function
count_output_fatal ==
    /\ d_pc = "count_output"
    /\ d_calls' = IF d_args.enable_token_counting
                  THEN Append(d_calls, "count_tokens") ELSE d_calls
    /\ IF d_args.enable_token_counting
       THEN \E env \in TokenEnvs(response.text) :
               LET c == count_tokens(response, d_args.model, env)
               IN  IF c.ok
                   THEN /\ output_tokens' = Known(c.v)
                        /\ d_pc' = "cost"
                        /\ UNCHANGED <<d_outcome, d_error>>
                   ELSE /\ Raise("TypeError")
                        /\ UNCHANGED output_tokens
       ELSE /\ output_tokens' = Unknown
            /\ d_pc' = "cost"
            /\ UNCHANGED <<d_outcome, d_error>>
    /\ UNCHANGED <<d_args, shape, client, validated_params, input_tokens, cost,
                   api_params, remote_calls, response, d_return>>
    /\ UNCHANGED <<evars, nvars, uvars, bvars, cvars>>

\* "Count output tokens if enabled": the handler turns an exception of
\* count_tokens into None
count_output ==
    /\ d_pc = "count_output"
    /\ IF d_args.enable_token_counting
       THEN \E env \in TokenEnvs(response.text) :
               LET c == count_tokens(response, d_args.model, env)
               IN  output_tokens' = IF c.ok THEN Known(c.v) ELSE Unknown
       ELSE output_tokens' = Unknown
    /\ d_calls' = IF d_args.enable_token_counting
                  THEN Append(d_calls, "count_tokens") ELSE d_calls
    /\ d_pc' = "cost"
    /\ UNCHANGED <<d_args, shape, client, validated_params, input_tokens, cost,
                   api_params, remote_calls, response, d_outcome, d_error,
                   d_return>>
    /\ UNCHANGED <<evars, nvars, uvars, bvars, cvars>>

\* a cost computed only if both counts are truthy (if input_tokens and
\* output_tokens), so that a count of 0 leaves the cost unknown
finish_truthy ==
    /\ d_pc = "cost"
    /\ cost' = IF /\ input_tokens.known /\ input_tokens.v # 0
                  /\ output_tokens.known /\ output_tokens.v # 0
               THEN Known(calculate_cost(input_tokens.v, output_tokens.v,
                                         d_args.model))
               ELSE UnknownCost
    /\ d_calls' = IF /\ input_tokens.known /\ input_tokens.v # 0
                     /\ output_tokens.known /\ output_tokens.v # 0
                  THEN Append(d_calls, "calculate_cost") ELSE d_calls
    /\ d_return' = send_return(response, input_tokens, output_tokens, cost')
    /\ d_outcome' = "returned"
    /\ d_pc' = "done"
    /\ UNCHANGED <<d_args, shape, client, validated_params, input_tokens,
                   output_tokens, api_params, remote_calls, response, d_error>>
    /\ UNCHANGED <<evars, nvars, uvars, bvars, cvars>>

\* "Calculate cost if we have token counts", the summary and the return
finish ==
    /\ d_pc = "cost"
    /\ cost' = IF input_tokens.known /\ output_tokens.known
               THEN Known(calculate_cost(input_tokens.v, output_tokens.v,
                                         d_args.model))
               ELSE UnknownCost
    /\ d_calls' = IF input_tokens.known /\ output_tokens.known
                  THEN Append(d_calls, "calculate_cost") ELSE d_calls
    /\ d_return' = send_return(response, input_tokens, output_tokens, cost')
    /\ d_outcome' = "returned"
    /\ d_pc' = "done"
    /\ UNCHANGED <<d_args, shape, client, validated_params, input_tokens,
                   output_tokens, api_params, remote_calls, response, d_error>>
    /\ UNCHANGED <<evars, nvars, uvars, bvars, cvars>>

NextDispatch ==
    \/ send_to_llm
    \/ create_client
    \/ create_client_error
    \/ validate_params
    \/ count_input
    \/ remote_call
    \/ remote_call_error
    \/ count_output
    \/ finish

SpecDispatch == InitDispatch /\ [][NextDispatch]_vars

----------------------------------------------------------------------------
(* The helpers of llm_api_handler.py, each applied to every input          *)

InitUtility ==
    /\ api_key = FALSE
    /\ self_model = "openai/gpt-4o-mini"
    /\ ExtractIdle
    /\ NormalizeIdle
    /\ DispatchIdle
    /\ BatchIdle
    /\ ConcurrentIdle
    /\ environ \in [EnvKeys -> EnvValues]
    /\ u_pc = "idle"
    /\ u_call = NoCall
    /\ u_result = NoResult

count_tokens_call ==
    /\ u_pc = "idle"
    /\ \E text \in Texts, m \in ModelIds :
          \E env \in TokenEnvs(text.text) :
             LET c == count_tokens(text, m, env) IN
             /\ u_call' = [NoCall EXCEPT !.op = "count_tokens", !.text = text,
                                         !.model = m, !.env = env]
             /\ u_result' = [NoResult EXCEPT !.raised = ~c.ok, !.tokens = c.v]
    /\ u_pc' = "done"
    /\ UNCHANGED <<environ, evars, nvars, dvars, bvars, cvars>>

validate_api_key_call ==
    /\ u_pc = "idle"
    /\ u_call' = [NoCall EXCEPT !.op = "validate_api_key"]
    /\ u_result' = [NoResult EXCEPT !.valid = validate_api_key(environ)]
    /\ u_pc' = "done"
    /\ UNCHANGED <<environ, evars, nvars, dvars, bvars, cvars>>

validate_openai_api_key_call ==
    /\ u_pc = "idle"
    /\ u_call' = [NoCall EXCEPT !.op = "validate_openai_api_key"]
    /\ u_result' = [NoResult EXCEPT !.valid = validate_openai_api_key(environ)]
    /\ u_pc' = "done"
    /\ UNCHANGED <<environ, evars, nvars, dvars, bvars, cvars>>

validate_openrouter_api_key_call ==
    /\ u_pc = "idle"
    /\ u_call' = [NoCall EXCEPT !.op = "validate_openrouter_api_key"]
    /\ u_result' = [NoResult EXCEPT !.valid = validate_openrouter_api_key(environ)]
    /\ u_pc' = "done"
    /\ UNCHANGED <<environ, evars, nvars, dvars, bvars, cvars>>

\* the caller takes the result
utility_return ==
    /\ u_pc = "done"
    /\ u_pc' = "idle"
    /\ u_call' = NoCall
    /\ u_result' = NoResult
    /\ UNCHANGED <<environ, evars, nvars, dvars, bvars, cvars>>

NextUtility ==
    \/ count_tokens_call
    \/ validate_api_key_call
    \/ validate_openai_api_key_call
    \/ validate_openrouter_api_key_call
    \/ utility_return

SpecUtility == InitUtility /\ [][NextUtility]_vars

----------------------------------------------------------------------------
(* calculate_cost applied to a pair of token counts, to each of two parts  *)
(* of the pair, and the sum of the two results                             *)

InitCost ==
    /\ api_key = FALSE
    /\ self_model = "openai/gpt-4o-mini"
    /\ ExtractIdle
    /\ NormalizeIdle
    /\ DispatchIdle
    /\ UtilityIdle
    /\ BatchIdle
    /\ ConcurrentIdle

\* the caller holds input counts a, b and output counts c, d for model m
cost_start ==
    /\ u_pc = "idle"
    /\ \E a \in CostTokenCounts, b \in CostTokenCounts,
          c \in CostTokenCounts, d \in CostTokenCounts, m \in CostModels :
          u_call' = [NoCall EXCEPT !.op = "calculate_cost", !.model = m,
                                   !.counts = <<a, b, c, d>>]
    /\ u_pc' = "whole"
    /\ UNCHANGED <<environ, u_result, evars, nvars, dvars, bvars, cvars>>

\* the calls the caller makes in turn: calculate_cost(a + b, c + d, m),
\* calculate_cost(a, c, m) and calculate_cost(b, d, m)
CostArgs(counts, step) ==
    CASE step = "whole" -> <<counts[1] + counts[2], counts[3] + counts[4]>>
      [] step = "first" -> <<counts[1], counts[3]>>
      [] step = "second" -> <<counts[2], counts[4]>>

CostStepAfter(step) ==
    CASE step = "whole" -> "first"
      [] step = "first" -> "second"
      [] step = "second" -> "sum"

\* one call of calculate_cost
cost_call ==
    /\ u_pc \in {"whole", "first", "second"}
    /\ u_result' =
         [u_result EXCEPT !.costs =
            Append(@, calculate_cost(CostArgs(u_call.counts, u_pc)[1],
                                     CostArgs(u_call.counts, u_pc)[2],
                                     u_call.model))]
    /\ u_pc' = CostStepAfter(u_pc)
    /\ UNCHANGED <<environ, u_call, evars, nvars, dvars, bvars, cvars>>

\* the caller adds the costs of the two parts
cost_sum ==
    /\ u_pc = "sum"
    /\ u_result' =
         [u_result EXCEPT !.costs =
            Append(@, FAdd(u_result.costs[2], u_result.costs[3]))]
    /\ u_pc' = "done"
    /\ UNCHANGED <<environ, u_call, evars, nvars, dvars, bvars, cvars>>

NextCost ==
    \/ cost_start
    \/ cost_call
    \/ cost_sum
    \/ utility_return

SpecCost == InitCost /\ [][NextCost]_vars

----------------------------------------------------------------------------
(* process_projects_with_openrouter: the loop over project rows and their  *)
(* context files                                                           *)

InitBatch ==
    /\ api_key \in BOOLEAN
    /\ self_model = "openai/gpt-4o-mini"
    /\ ExtractIdle
    /\ NormalizeIdle
    /\ DispatchIdle
    /\ UtilityIdle
    /\ ConcurrentIdle
    /\ projects \in ProjectTables
    /\ b_pc = "idle"
    /\ b_p = 0
    /\ b_c = 0
    /\ model_to_use = ""
    /\ all_results = <<>>
    /\ b_outcome = "none"

\* all_results = []; model_to_use = model or self.model
process_projects_with_openrouter ==
    /\ b_pc = "idle"
    /\ \E arg \in ModelArgs :
          model_to_use' = (IF arg # "" THEN arg ELSE self_model)
    /\ all_results' = <<>>
    /\ b_p' = 1
    /\ b_pc' = "project"
    /\ UNCHANGED <<projects, b_c, b_outcome, evars, nvars, dvars, uvars, cvars>>

\* the head of the outer loop: the two skips, or return all_results
next_project ==
    /\ b_pc = "project"
    /\ IF b_p > Len(projects)
       THEN /\ b_pc' = "done"
            /\ b_outcome' = "returned"
            /\ UNCHANGED <<b_p, b_c>>
       ELSE IF Falsy(projects[b_p].template) \/ projects[b_p].contexts = <<>>
            THEN /\ b_p' = b_p + 1
                 /\ UNCHANGED <<b_pc, b_c, b_outcome>>
            ELSE /\ b_c' = 1
                 /\ b_pc' = "context"
                 /\ UNCHANGED <<b_p, b_outcome>>
    /\ UNCHANGED <<projects, model_to_use, all_results, evars, nvars, dvars, uvars, cvars>>

\* the head of the inner loop: the skip of an empty code context
next_context ==
    /\ b_pc = "context"
    /\ IF b_c > Len(projects[b_p].contexts)
       THEN /\ b_p' = b_p + 1
            /\ b_c' = 0
            /\ b_pc' = "project"
       ELSE IF Falsy(projects[b_p].contexts[b_c])
            THEN /\ b_c' = b_c + 1
                 /\ UNCHANGED <<b_p, b_pc>>
            ELSE /\ b_pc' = "call"
                 /\ UNCHANGED <<b_p, b_c>>
    /\ UNCHANGED <<projects, model_to_use, all_results, b_outcome, evars, nvars, dvars, uvars, cvars>>

\* response = self._call_openrouter_api(prompt, model_to_use): the entry
batch_call ==
    /\ b_pc = "call"
    /\ pc = "idle"
    /\ Entry(model_to_use)
    /\ b_pc' = "wait"
    /\ UNCHANGED <<projects, b_p, b_c, model_to_use, all_results, b_outcome, nvars, dvars, uvars, cvars>>

\* the response of the remote model to the prompt of this context file
batch_response ==
    /\ b_pc = "wait"
    /\ ResponseFrom(BatchContents)

\* the call is over: an exception leaves the loop, a response gets its
\* metadata and is appended
batch_record ==
    /\ b_pc = "wait"
    /\ pc = "done"
    /\ IF outcome = "raised"
       THEN /\ b_pc' = "done"
            /\ b_outcome' = "raised"
            /\ UNCHANGED <<b_c, all_results>>
       ELSE /\ all_results' = append_response(all_results, result, Metadata(b_p, b_c))
            /\ b_c' = b_c + 1
            /\ b_pc' = "context"
            /\ UNCHANGED b_outcome
    /\ pc' = "idle"
    /\ model' = ""
    /\ content' = NoContent
    /\ result' = <<>>
    /\ outcome' = "none"
    /\ via' = "none"
    /\ UNCHANGED <<api_key, self_model, projects, b_p, model_to_use, nvars, dvars, uvars, cvars>>

NextBatch ==
    \/ process_projects_with_openrouter
    \/ next_project
    \/ next_context
    \/ batch_call
    \/ RequestFailed
    \/ HttpError
    \/ ResponseMalformed
    \/ batch_response
    \/ Stage1Direct
    \/ Stage2Fenced
    \/ Stage3Loose
    \/ Stage4Fields
    \/ batch_record

SpecBatch == InitBatch /\ [][NextBatch]_vars

----------------------------------------------------------------------------
(* Two callers, each making one invocation, in any interleaving            *)

InitConcurrent ==
    /\ api_key \in BOOLEAN
    /\ self_model = "openai/gpt-4o-mini"
    /\ ExtractIdle
    /\ NormalizeIdle
    /\ DispatchIdle
    /\ UtilityIdle
    /\ BatchIdle
    /\ ConcurrentIdle

\* the frame of caller i becomes f; nothing else changes
Local(i, f) ==
    /\ callers' = [callers EXCEPT ![i] = f]
    /\ UNCHANGED <<registry, pricing, evars, nvars, dvars, uvars, bvars>>

\* caller i enters send_to_llm or _call_openrouter_api
caller_call(i) ==
    /\ callers[i].pc = "idle"
    /\ \E inv \in Invocations :
          Local(i, [IdleCaller EXCEPT
                      !.pc = IF inv.op = "send_to_llm" THEN "route" ELSE "entry",
                      !.op = inv.op,
                      !.args = inv.args,
                      !.env = inv.env,
                      !.overlapped =
                          \E j \in Callers \ {i} :
                              callers[j].pc \notin {"idle", "done"}])

\* send_to_llm: is_openai_model reads MODEL_CONFIGS
caller_route(i) ==
    /\ callers[i].pc = "route"
    /\ LET f == callers[i]
           r == route_in(registry, f.args.model)
       IN  IF r.ok
           THEN Local(i, [f EXCEPT !.shape = r.shape, !.pc = "validate"])
           ELSE Local(i, [f EXCEPT !.ret = Raised("ValueError"), !.pc = "done"])

\* validate_model_parameters reads MODEL_CONFIGS
caller_validate(i) ==
    /\ callers[i].pc = "validate"
    /\ LET f == callers[i]
           params == CallParams(f.args.temperature, f.args.kwargs)
           r == validate_in(registry, f.args.model, params)
       IN  /\ callers' =
                [callers EXCEPT ![i] =
                    IF r.ok
                    THEN [f EXCEPT !.validated_params = r.params,
                                   !.pc = "count_input"]
                    ELSE [f EXCEPT !.ret = Raised(r.error), !.pc = "done"]]
           /\ registry' = configs_after_validate(registry, f.args.model, params)
    /\ UNCHANGED <<pricing, evars, nvars, dvars, uvars, bvars>>

caller_count_input(i) ==
    /\ callers[i].pc = "count_input"
    /\ LET f == callers[i]
           c == count_tokens(Text(f.args.prompt), f.args.model, f.env.tokens)
       IN  Local(i, [f EXCEPT
                       !.input_tokens = IF c.ok THEN Known(c.v) ELSE Unknown,
                       !.pc = "request"])

\* the remote call returns a response or raises
caller_remote_call(i) ==
    /\ callers[i].pc = "request"
    /\ LET f == callers[i] IN
       IF f.env.response.raises
       THEN Local(i, [f EXCEPT !.ret = Raised("RemoteCallError"), !.pc = "done"])
       ELSE Local(i, [f EXCEPT !.response = f.env.response.text,
                               !.pc = "count_output"])

caller_count_output(i) ==
    /\ callers[i].pc = "count_output"
    /\ LET f == callers[i]
           c == count_tokens(f.response, f.args.model, f.env.tokens)
       IN  Local(i, [f EXCEPT
                       !.output_tokens = IF c.ok THEN Known(c.v) ELSE Unknown,
                       !.pc = "cost"])

\* calculate_cost reads MODEL_PRICING; the summary and the return
caller_finish(i) ==
    /\ callers[i].pc = "cost"
    /\ LET f == callers[i]
           c == IF f.input_tokens.known /\ f.output_tokens.known
                THEN Known(cost_in(pricing, f.input_tokens.v,
                                   f.output_tokens.v, f.args.model))
                ELSE UnknownCost
       IN  Local(i, [f EXCEPT
                       !.ret = Returned(send_return(f.response, f.input_tokens,
                                                    f.output_tokens, c),
                                        UsageRecord(f.input_tokens,
                                                    f.output_tokens, c),
                                        f.validated_params),
                       !.pc = "done"])

\* _call_openrouter_api reads self.api_key and self.model
caller_entry(i) ==
    /\ callers[i].pc = "entry"
    /\ LET f == callers[i] IN
       IF ~api_key
       THEN Local(i, [f EXCEPT
                        !.ret = Returned(generate_fallback_response(self_model),
                                         NoUsage, <<>>),
                        !.pc = "done"])
       ELSE Local(i, [f EXCEPT
                        !.model = IF f.args.model # "" THEN f.args.model
                                  ELSE self_model,
                        !.pc = "post"])

\* requests.post raises, or the response carries a content
caller_response(i) ==
    /\ callers[i].pc = "post"
    /\ LET f == callers[i] IN
       IF f.env.response.kind = "request_failed"
       THEN Local(i, [f EXCEPT
                        !.ret = Returned(except_Exception(self_model).res,
                                         NoUsage, <<>>),
                        !.pc = "done"])
       ELSE Local(i, [f EXCEPT !.content = f.env.response, !.pc = "parse"])

\* the cascade; its handlers read self.model
caller_parse(i) ==
    /\ callers[i].pc = "parse"
    /\ LET f == callers[i] IN
       Local(i, [f EXCEPT
                   !.ret = Returned(cascade(f.content, f.model, self_model),
                                    NoUsage, <<>>),
                   !.pc = "done"])

NextConcurrent ==
    \E i \in Callers :
        \/ caller_call(i)
        \/ caller_route(i)
        \/ caller_validate(i)
        \/ caller_count_input(i)
        \/ caller_remote_call(i)
        \/ caller_count_output(i)
        \/ caller_finish(i)
        \/ caller_entry(i)
        \/ caller_response(i)
        \/ caller_parse(i)

SpecConcurrent == InitConcurrent /\ [][NextConcurrent]_vars

----------------------------------------------------------------------------
(* validate_model_parameters on a registry that has grown by one entry     *)

\* the identifier of the entry added to MODEL_CONFIGS
AddedModel == "added/model"

\* entries a maintainer may add: supported_parameters is any set of
\* parameter names, with or without one of the two token limits
AddedEntries ==
    {Config(20, 0, sp, "gpt-4", "openrouter") :
        sp \in {{"temperature", "top_p"},
                {"top_p"},
                {"temperature", "max_tokens", "top_p"},
                {"max_completion_tokens", "top_p"},
                {"max_tokens", "max_completion_tokens", "top_p"}}}

\* the registry as shipped, and with one entry added
Registries ==
    {MODEL_CONFIGS} \cup {MODEL_CONFIGS @@ (AddedModel :> e) : e \in AddedEntries}

\* the models the grown registry is asked about
EntryModels == {"gpt-4", "o3-mini", "o3-pro", AddedModel}

InitEntry ==
    /\ api_key = FALSE
    /\ self_model = "openai/gpt-4o-mini"
    /\ ExtractIdle
    /\ NormalizeIdle
    /\ DispatchIdle
    /\ UtilityIdle
    /\ BatchIdle
    /\ registry \in Registries
    /\ pricing = MODEL_PRICING
    /\ callers = [i \in Callers |-> IdleCaller]

entry_validate_call ==
    /\ n_pc = "idle"
    /\ \E m \in EntryModels, t \in Temperatures, kw \in Kwargs :
          /\ n_model' = m
          /\ n_kwargs' = CallParams(t, kw)
          /\ n_result' = validate_in(registry, m, CallParams(t, kw))
    /\ n_pc' = "done"
    /\ UNCHANGED <<evars, dvars, uvars, bvars, cvars>>

NextEntry ==
    \/ entry_validate_call
    \/ validate_return

SpecEntry == InitEntry /\ [][NextEntry]_vars

----------------------------------------------------------------------------
(* Properties of the extraction cascade (SpecExtract)                      *)

\* a call has returned for a response that carried a text
TextDone == pc = "done" /\ content.kind = "text"

\* stage 1 as specified: the whole text parses and is an object
Stage1Ok(t) == json_loads(t).ok /\ json_loads(t).val.ty = "obj"

\* none of the four stages succeeds on the text
AllStagesFail(t) ==
    /\ ~Stage1Ok(t)
    /\ ~fenced_parse(t, model).ok
    /\ ~loose_scan(t, model).ok
    /\ ~field_recovery(t, model).ok

\* the dict d with model_used set to m
WithModelUsed(d, m) ==
    [x \in (DOMAIN d) \cup {"model_used"} |->
        IF x = "model_used" THEN JStr(m) ELSE d[x]]

\* the all-"ERROR" verdict naming model m
AllError(m) ==
    [x \in RequiredSet \cup {"model_used"} |->
        IF x = "model_used" THEN JStr(m) ELSE JStr("ERROR")]

\* C1: every returned Verdict holds the four required fields, each with a
\* non-empty value, whichever stage produced it.
C1_VerdictComplete ==
    (pc = "done" /\ outcome = "returned") =>
        \A f \in RequiredSet :
            /\ f \in DOMAIN result
            /\ ~(result[f].ty = "str" /\ result[f].s = "")

\* C2: the call never raises: whatever the remote call does and whatever the
\* content is (no JSON, JSON that is no object, null), it ends by returning.
C2_NeverRaises ==
    /\ outcome # "raised"
    /\ pc = "done" => outcome = "returned"

\* C2 witness: a call has ended on a text that is JSON but not an object
C2_Witness ==
    /\ TextDone
    /\ json_loads(content.toks).ok
    /\ json_loads(content.toks).val.ty # "obj"

\* C3: the all-"ERROR" sentinel is returned for a text only when all four
\* stages fail on it; JSON that is not an object is a stage-1 failure after
\* which stages 2, 3 and 4 are still tried.
C3_SentinelOnlyAfterAllStages ==
    (TextDone /\ via \in {"sentinel", "fallback"}) => AllStagesFail(content.toks)

\* C4: first success wins: the returned Verdict is the result of the
\* lowest-numbered stage that succeeds on the text.
C4_FirstSuccessWins ==
    TextDone =>
        LET t == content.toks IN
        IF Stage1Ok(t)
        THEN result = WithModelUsed(json_loads(t).val.m, model)
        ELSE IF fenced_parse(t, model).ok
        THEN result = fenced_parse(t, model).res
        ELSE IF loose_scan(t, model).ok
        THEN result = loose_scan(t, model).res
        ELSE IF field_recovery(t, model).ok
        THEN result = field_recovery(t, model).res
        ELSE TRUE

\* C5 as stated: for a Verdict-shaped object serialized as clean JSON text the
\* call returns an object equal to the original.
C5_RoundTrip ==
    \A v \in VerdictShaped :
        (TextDone /\ content.toks = json_dumps(v)) => result = DictOf(v)

\* C5 amended: the object returned equals the original with model_used
\* replaced by the model identifier of the call.
C5_RoundTripOverlay ==
    \A v \in VerdictShaped :
        (TextDone /\ content.toks = json_dumps(v)) =>
            /\ outcome = "returned"
            /\ via = "stage1"
            /\ result = WithModelUsed(DictOf(v), model)

\* C5 witness: a serialized Verdict whose model_used is not the call's model
\* has been extracted
C5_Witness ==
    /\ TextDone
    /\ \E v \in VerdictShaped :
          /\ content.toks = json_dumps(v)
          /\ DictOf(v)["model_used"] # JStr(model)

IsProse(t) == \A i \in 1..Len(t) : t[i].k \in {"PROSE", "WS"}

\* the text is prose, a fence (tagged json or not), a JSON object, a fence
\* and prose: the object text, or <<>> when the text has another form
FencedObject(t) ==
    LET Ps == {p \in (1..Len(t)) \X (1..Len(t)) :
                  /\ p[1] < p[2]
                  /\ t[p[1]].k = "FENCE"
                  /\ t[p[2]].k = "FENCE"
                  /\ IsProse(SubSeq(t, 1, p[1] - 1))
                  /\ IsProse(SubSeq(t, p[2] + 1, Len(t)))
                  /\ LET b == IF t[p[1] + 1].k = "JSONTAG" THEN p[1] + 2
                              ELSE p[1] + 1
                     IN  Stage1Ok(SubSeq(t, b, p[2] - 1))}
    IN  IF Ps = {} THEN <<>>
        ELSE LET p == CHOOSE q \in Ps : TRUE
                 b == IF t[p[1] + 1].k = "JSONTAG" THEN p[1] + 2 ELSE p[1] + 1
             IN  SubSeq(t, b, p[2] - 1)

\* C6: a JSON object inside a fenced block (tagged json or untagged) with
\* prose around it yields the Verdict the bare object yields.
C6_FencedSameAsBare ==
    (TextDone /\ FencedObject(content.toks) # <<>>) =>
        /\ outcome = "returned"
        /\ result = WithModelUsed(json_loads(FencedObject(content.toks)).val.m,
                                  model)

\* C6 witness: an untagged fenced block after prose was extracted by stage 2
C6_Witness ==
    /\ TextDone
    /\ via = "stage2"
    /\ content.toks[1] = PROSE
    /\ FencedObject(content.toks) # <<>>
    /\ \A i \in 1..Len(content.toks) : content.toks[i].k # "JSONTAG"

\* C7: for a text on which all four stages fail the call returns the
\* all-"ERROR" Verdict with model_used the model requested for the call.
C7_SentinelNamesCallModel ==
    (TextDone /\ AllStagesFail(content.toks)) => result = AllError(model)

----------------------------------------------------------------------------
(* Properties of routing (SpecDispatch)                                    *)

\* C8: a dispatch for o3-pro takes the response call shape (responses
\* endpoint, 60 s timeout) and never a chat-completion shape.
C8_O3ProResponseApi ==
    (d_pc # "idle" /\ d_args.model = "o3-pro") =>
        /\ shape = "RESPONSE_API"
        /\ client # NoClient => client.timeout = 60
        /\ \A i \in 1..Len(remote_calls) : remote_calls[i] = "responses.create"

\* C8 witness: the remote call of a dispatch for o3-pro has been made
C8_Witness ==
    /\ d_args.model = "o3-pro"
    /\ remote_calls # <<>>
    /\ MODEL_CONFIGS["o3-pro"].provider = "openai"

\* C14 as stated: a successful dispatch returns the pair of the response
\* text and the usage record of the call.
C14_ReturnsTextAndUsage ==
    d_outcome = "returned" =>
        d_return = ReturnedPair(response,
                                UsageRecord(input_tokens, output_tokens, cost))

\* C14 amended: a successful dispatch returns the response text alone; the
\* usage values of the call are computed (each possibly unknown: all of
\* them without token counting, the cost unless both counts are known) but
\* not returned.
C14_ReturnsTextOnly ==
    d_outcome = "returned" =>
        /\ d_return = ReturnedText(response)
        /\ ~d_args.enable_token_counting =>
              ~input_tokens.known /\ ~output_tokens.known
        /\ d_args.enable_token_counting => input_tokens.known
        /\ output_tokens.known <=> (d_args.enable_token_counting /\ ~response.null)
        /\ cost.known <=> (input_tokens.known /\ output_tokens.known)
        /\ cost.known =>
              cost.v = calculate_cost(input_tokens.v, output_tokens.v, d_args.model)

\* C14 witness: a dispatch with token counting returned a text, with both
\* counts and a positive cost known
C14_Witness ==
    /\ d_outcome = "returned"
    /\ ~d_return.text.null
    /\ input_tokens.known
    /\ output_tokens.known
    /\ cost.known
    /\ cost.v # FZero

\* the call shape the routing rule gives a registered model
ShapeOf(m) ==
    IF m = "o3-pro" THEN "RESPONSE_API"
    ELSE IF MODEL_CONFIGS[m].provider = "openai" THEN "CHAT_OPENAI"
    ELSE "CHAT_OPENROUTER"

\* C19: a dispatch for a registered model takes exactly the call shape of
\* the routing rule (the response call iff the model is o3-pro, else the
\* OpenAI host iff the registry's provider is openai, else the OpenRouter
\* host), the client and the operation invoked are those of that shape, and
\* at most one remote call is invoked.
C19_RoutingTotalExclusive ==
    (d_pc # "idle" /\ d_args.model \in DOMAIN MODEL_CONFIGS) =>
        /\ shape = ShapeOf(d_args.model)
        /\ client # NoClient =>
              /\ (client.base_url = "https://openrouter.ai/api/v1")
                    <=> (shape = "CHAT_OPENROUTER")
              /\ (client.timeout = 60) <=> (shape = "RESPONSE_API")
        /\ Len(remote_calls) <= 1
        /\ \A i \in 1..Len(remote_calls) :
              (remote_calls[i] = "responses.create") <=> (shape = "RESPONSE_API")

\* C19 witness: a model that OpenAI makes but the registry places at
\* OpenRouter has made its one remote call on the OpenRouter host
C19_Witness ==
    /\ d_args.model = "o3"
    /\ shape = "CHAT_OPENROUTER"
    /\ client.base_url = "https://openrouter.ai/api/v1"
    /\ remote_calls = <<"chat.completions.create">>
    /\ d_outcome = "returned"

----------------------------------------------------------------------------
(* Properties of validate_model_parameters (SpecNormalize)                 *)

\* C9: for every registered model and every parameter bag the result never
\* holds both max_tokens and max_completion_tokens.
C9_NeverBothMaxTokens ==
    (n_pc = "done" /\ n_result.ok) =>
        ~({"max_tokens", "max_completion_tokens"} \subseteq DOMAIN n_result.params)

\* C9 witness: a bag supplying both names was normalized to one of them
C9_Witness ==
    /\ n_pc = "done"
    /\ n_result.ok
    /\ {"max_tokens", "max_completion_tokens"} \subseteq DOMAIN n_kwargs
    /\ "max_completion_tokens" \in DOMAIN n_result.params

\* C10: for a registered model that supports temperature, no caller
\* temperature yields default_temperature; a caller temperature t yields t
\* if 0 <= t <= max_temperature and raises ValueError otherwise.
C10_Temperature ==
    (/\ n_pc = "done"
     /\ n_model \in DOMAIN MODEL_CONFIGS
     /\ "temperature" \in MODEL_CONFIGS[n_model].supported_parameters) =>
        LET cfg == MODEL_CONFIGS[n_model] IN
        IF "temperature" \notin DOMAIN n_kwargs
        THEN /\ n_result.ok
             /\ n_result.params["temperature"] = cfg.default_temperature
        ELSE IF 0 <= n_kwargs["temperature"]
                /\ n_kwargs["temperature"] <= cfg.max_temperature
             THEN /\ n_result.ok
                  /\ n_result.params["temperature"] = n_kwargs["temperature"]
             ELSE /\ ~n_result.ok
                  /\ n_result.error = "ValueError"

\* C10 witness: a caller temperature equal to max_temperature was accepted
C10_Witness ==
    /\ n_pc = "done"
    /\ n_model \in DOMAIN MODEL_CONFIGS
    /\ "temperature" \in DOMAIN n_kwargs
    /\ n_kwargs["temperature"] = MODEL_CONFIGS[n_model].max_temperature
    /\ n_result.ok

\* C11: for a model identifier that is no key of the registry, the lookup
\* fails and validate_model_parameters raises the ValueError of the lookup
\* with no parameters returned, whatever arguments were supplied.
C11_UnknownModelFails ==
    (n_pc = "done" /\ n_model \notin DOMAIN MODEL_CONFIGS) =>
        /\ ~get_model_config(n_model).ok
        /\ ~n_result.ok
        /\ n_result.error = "ValueError"
        /\ n_result.params = <<>>

\* C11 witness: an unregistered model was called with a full argument bag
\* and a temperature that every registered model accepts
C11_Witness ==
    /\ n_pc = "done"
    /\ n_model \in UnknownModels
    /\ n_model # UnknownModel
    /\ DOMAIN n_kwargs = DOMAIN KwargValues \cup {"temperature"}
    /\ n_kwargs["temperature"] = 0
    /\ ~n_result.ok

----------------------------------------------------------------------------
(* Properties of the helpers (SpecUtility)                                 *)

\* C12: count_tokens of a text never raises and returns a non-negative
\* integer, for registered and unregistered models and every combination of
\* tokenizer failures: the count of the model's tokenizer, else the count of
\* the gpt-4 tokenizer, else len(text) divided by 4.
C12_CountTokensTotal ==
    (u_pc = "done" /\ u_call.op = "count_tokens" /\ ~u_call.text.null) =>
        /\ ~u_result.raised
        /\ u_result.tokens \in Nat
        /\ LET first == u_call.model \in DOMAIN MODEL_CONFIGS /\ u_call.env.tier1
           IN  u_result.tokens =
                 IF first \/ u_call.env.tier2 THEN u_call.env.n
                 ELSE Len(u_call.text.text) \div 4

\* C12 witness: an unregistered model, both tokenizers failing, and a text
\* long enough for a positive estimate
C12_Witness ==
    /\ u_pc = "done"
    /\ u_call.op = "count_tokens"
    /\ u_call.model \in UnknownModels
    /\ ~u_call.text.null
    /\ ~u_call.env.tier1
    /\ ~u_call.env.tier2
    /\ u_result.tokens = 1

\* C16: validate_api_key reports failure exactly when the OpenAI key is
\* missing; a missing OpenRouter key alone is a warning and no failure.
C16_OpenRouterKeyIsSoft ==
    (u_pc = "done" /\ u_call.op = "validate_api_key") =>
        (u_result.valid <=> Truthy(environ["OPENAI_API_KEY"]))

\* C13 as stated: calculate_cost(a + b, c + d, m) equals
\* calculate_cost(a, c, m) + calculate_cost(b, d, m).
C13_Additive ==
    (u_pc = "done" /\ u_call.op = "calculate_cost") =>
        u_result.costs[1] = u_result.costs[4]

\* C13 amended: the two sides agree up to the rounding of the float
\* operations: they differ by at most 2^-50 of the larger one.
C13_AdditiveUpToRounding ==
    (u_pc = "done" /\ u_call.op = "calculate_cost") =>
        FClose(u_result.costs[1], u_result.costs[4], 50)

\* C13 witness: the sum of the parts differs from the cost of the whole, for
\* a model without a pricing entry
C13_Witness ==
    /\ u_pc = "done"
    /\ u_call.op = "calculate_cost"
    /\ u_call.model \notin DOMAIN MODEL_PRICING
    /\ u_result.costs[1] # u_result.costs[4]
    /\ u_call.counts[1] + u_call.counts[2] = 1000

----------------------------------------------------------------------------
(* More properties of validate_model_parameters (SpecNormalize)            *)

\* C15: for a registered model and a temperature that is absent or within
\* [0, max_temperature], validate_model_parameters succeeds and returns only
\* keys of the model's supported_parameters; other caller parameters are
\* dropped.
C15_OnlySupportedKeys ==
    (/\ n_pc = "done"
     /\ n_model \in DOMAIN MODEL_CONFIGS
     /\ "temperature" \in DOMAIN n_kwargs =>
           /\ 0 <= n_kwargs["temperature"]
           /\ n_kwargs["temperature"] <= MODEL_CONFIGS[n_model].max_temperature) =>
        /\ n_result.ok
        /\ DOMAIN n_result.params \subseteq MODEL_CONFIGS[n_model].supported_parameters

\* C15 witness: a bag with max_tokens and parameters the model does not
\* support was normalized
C15_Witness ==
    /\ n_pc = "done"
    /\ n_model \in DOMAIN MODEL_CONFIGS
    /\ n_result.ok
    /\ "max_tokens" \in DOMAIN n_kwargs
    /\ {"stop", "reasoning"} \subseteq DOMAIN n_kwargs
    /\ {"stop", "reasoning"} \cap MODEL_CONFIGS[n_model].supported_parameters = {}
    /\ {"stop", "reasoning"} \cap DOMAIN n_result.params = {}

\* the registered models without temperature in supported_parameters
NoTemperatureModels ==
    {m \in DOMAIN MODEL_CONFIGS :
        "temperature" \notin MODEL_CONFIGS[m].supported_parameters}

\* C20: the models without temperature in supported_parameters are o1,
\* o1-mini, o1-pro, o3, o3-mini, o3-pro and o4-mini; for each of them
\* validate_model_parameters succeeds for every caller temperature, also
\* outside [0, max_temperature], and returns no temperature key.
C20_TemperatureDropped ==
    /\ NoTemperatureModels =
         {"o1", "o1-mini", "o1-pro", "o3", "o3-mini", "o3-pro", "o4-mini"}
    /\ (n_pc = "done" /\ n_model \in NoTemperatureModels) =>
          /\ n_result.ok
          /\ "temperature" \notin DOMAIN n_result.params

\* C20 witness: a temperature above max_temperature was passed for such a
\* model
C20_Witness ==
    /\ n_pc = "done"
    /\ n_model \in NoTemperatureModels
    /\ "temperature" \in DOMAIN n_kwargs
    /\ n_kwargs["temperature"] > MODEL_CONFIGS[n_model].max_temperature
    /\ n_result.ok

----------------------------------------------------------------------------
(* Properties of the batch loop (SpecBatch)                                *)

RECURSIVE ItemsFrom(_, _, _)
\* the work items of the rows from context file c of row p on that have a
\* template and a non-empty code context, in processing order
ItemsFrom(rows, p, c) ==
    IF p > Len(rows) THEN <<>>
    ELSE IF c > Len(rows[p].contexts) THEN ItemsFrom(rows, p + 1, 1)
    ELSE (IF ~Falsy(rows[p].template) /\ ~Falsy(rows[p].contexts[c])
          THEN <<<<p, c>>>>
          ELSE <<>>)
         \o ItemsFrom(rows, p, c + 1)

\* the work item a record was made for
ItemOf(record) == <<record["project_slug"], record["context_file"]>>

\* C17: whatever the outcome of each call of the remote model, the batch is
\* never left by an exception, the records appended so far are those of the
\* first work items with a template and a non-empty code context, one each
\* and in processing order, and the batch returns one record for every such
\* item.
C17_BatchNeverAborts ==
    LET expected == ItemsFrom(projects, 1, 1) IN
    /\ b_outcome # "raised"
    /\ Len(all_results) <= Len(expected)
    /\ \A k \in 1..Len(all_results) : ItemOf(all_results[k]) = expected[k]
    /\ b_pc = "done" => Len(all_results) = Len(expected)

\* a batch has returned in which a failed response (all fields "ERROR") is
\* followed by the record of a later item with a recovered verdict
C17_Witness ==
    /\ b_pc = "done"
    /\ b_outcome = "returned"
    /\ \E i, j \in 1..Len(all_results) :
          /\ i < j
          /\ all_results[i]["False Positive"] = JStr("ERROR")
          /\ all_results[j]["False Positive"] = JStr("Yes")

----------------------------------------------------------------------------
(* Properties of two concurrent callers (SpecConcurrent)                   *)

\* None for a count that raised
TokensOf(c) == IF c.ok THEN Known(c.v) ELSE Unknown

\* the cost of a call with the given counts, when both are known
CostOf(tin, tout, m) ==
    IF tin.known /\ tout.known
    THEN Known(calculate_cost(tin.v, tout.v, m))
    ELSE UnknownCost

\* the return of a call that got the text with the given counts and cost
SendReturned(text, tin, tout, c, params) ==
    Returned(send_return(text, tin, tout, c), UsageRecord(tin, tout, c), params)

\* what send_to_llm gives for the arguments and services of a frame when no
\* other caller is inside the module
SendAlone(args, env) ==
    IF ~Route(args.model).ok THEN Raised("ValueError")
    ELSE IF ~validate_model_parameters(
                 args.model, CallParams(args.temperature, args.kwargs)).ok
    THEN Raised("ValueError")
    ELSE IF env.response.raises THEN Raised("RemoteCallError")
    ELSE SendReturned(
             env.response.text,
             TokensOf(count_tokens(Text(args.prompt), args.model, env.tokens)),
             TokensOf(count_tokens(env.response.text, args.model, env.tokens)),
             CostOf(TokensOf(count_tokens(Text(args.prompt), args.model,
                                          env.tokens)),
                    TokensOf(count_tokens(env.response.text, args.model,
                                          env.tokens)),
                    args.model),
             validate_model_parameters(
                 args.model, CallParams(args.temperature, args.kwargs)).params)

\* what _call_openrouter_api gives on its own for a generator with the given
\* key and model
ExtractAlone(key, selfModel, args, env) ==
    IF ~key \/ env.response.kind = "request_failed"
    THEN Returned(generate_fallback_response(selfModel), NoUsage, <<>>)
    ELSE Returned(cascade(env.response,
                          IF args.model # "" THEN args.model ELSE selfModel,
                          selfModel),
                  NoUsage, <<>>)

\* the result of the invocation of frame f run alone
Alone(f) ==
    IF f.op = "send_to_llm" THEN SendAlone(f.args, f.env)
    ELSE ExtractAlone(api_key, self_model, f.args, f.env)

\* no step writes the registry, the pricing table, the generator's fields
\* or the environment
SharedUnchanged ==
    /\ registry' = registry
    /\ pricing' = pricing
    /\ api_key' = api_key
    /\ self_model' = self_model
    /\ environ' = environ

\* C18: in every interleaving of two invocations no step writes the model
\* registry, the pricing table, the generator's fields or the environment,
\* the registry and pricing stay as loaded, and each invocation that ends
\* ends with the result it has when run alone.
C18_ConcurrentSafe ==
    /\ [][SharedUnchanged]_vars
    /\ [](/\ registry = MODEL_CONFIGS
          /\ pricing = MODEL_PRICING
          /\ \A i \in Callers :
                callers[i].pc = "done" => callers[i].ret = Alone(callers[i]))

\* C18 witness: two invocations for the same model have overlapped and both
\* returned, one with a temperature of its own and one relying on the
\* default of the registry
C18_Witness ==
    /\ \A i \in Callers : callers[i].pc = "done" /\ callers[i].ret.kind = "returned"
    /\ \E i \in Callers : callers[i].overlapped
    /\ \A i \in Callers : callers[i].op = "send_to_llm" /\ callers[i].args.model = "gpt-4"
    /\ callers[1].args.temperature = Given(10)
    /\ callers[2].args.temperature = None
    /\ callers[2].ret.params["temperature"] = MODEL_CONFIGS["gpt-4"].default_temperature

----------------------------------------------------------------------------
(* max_tokens and the supported set of the entry (SpecEntry)               *)

----------------------------------------------------------------------------
(* The order of the steps of a dispatch and its failures (SpecDispatch)    *)

\* C22: in each call shape the remote call is made only after the client
\* was constructed and the parameters were normalized, in that order and
\* both with success; a failed client construction leaves send_to_llm with
\* nothing but the construction attempted, and a ValueError of the
\* normalization leaves it before any token is counted or request made.
C22_ClientThenNormalizeThenCall ==
    /\ (d_outcome = "raised" /\ d_error = "ClientInitError") =>
          /\ d_calls = <<"OpenAI">>
          /\ remote_calls = <<>>
    /\ (d_outcome = "raised" /\ d_error = "ValueError" /\ shape # "none") =>
          /\ d_calls = <<"OpenAI", "validate_model_parameters">>
          /\ remote_calls = <<>>
          /\ input_tokens = Unknown
    /\ remote_calls # <<>> =>
          /\ Len(d_calls) >= 3
          /\ d_calls[1] = "OpenAI"
          /\ d_calls[2] = "validate_model_parameters"
          /\ \A k \in 1..Len(d_calls) :
                d_calls[k] \in {"count_tokens", EndpointFor(shape)} => k > 2
          /\ client = ClientFor(shape)
          /\ validate_model_parameters(
                d_args.model, CallParams(d_args.temperature, d_args.kwargs)).ok
          /\ validated_params =
                validate_model_parameters(
                   d_args.model,
                   CallParams(d_args.temperature, d_args.kwargs)).params

\* C22 witness: the normalization refused a temperature for a model behind
\* OpenRouter after the client was constructed
C22_Witness ==
    /\ d_pc = "done"
    /\ d_outcome = "raised"
    /\ d_error = "ValueError"
    /\ shape = "CHAT_OPENROUTER"
    /\ d_args.temperature = Given(21)
    /\ d_args.enable_token_counting
    /\ client = ClientFor("CHAT_OPENROUTER")
    /\ d_calls = <<"OpenAI", "validate_model_parameters">>

\* C23: an exception of the remote call leaves send_to_llm as that
\* exception, in each call shape: the remote call was made once and was the
\* last call made, no output token was counted, no cost computed and nothing
\* returned; no dispatch makes the remote call twice.
C23_RemoteErrorPropagates ==
    /\ Len(remote_calls) <= 1
    /\ d_outcome = "returned" => d_error = ""
    /\ d_error = "RemoteCallError" =>
          /\ d_pc = "done"
          /\ d_outcome = "raised"
          /\ remote_calls = <<EndpointFor(shape)>>
          /\ d_calls[Len(d_calls)] = EndpointFor(shape)
          /\ \A k \in 1..Len(d_calls) : d_calls[k] # "calculate_cost"
          /\ output_tokens = Unknown
          /\ cost = UnknownCost
          /\ d_return = ReturnedText(NullText)

\* C23 witness: the Responses API call of o3-pro raised after the input
\* tokens were counted
C23_Witness ==
    /\ d_pc = "done"
    /\ d_error = "RemoteCallError"
    /\ shape = "RESPONSE_API"
    /\ d_args.enable_token_counting
    /\ input_tokens.known
    /\ d_calls = <<"OpenAI", "validate_model_parameters", "count_tokens",
                   "responses.create">>

\* C24: once the remote call has returned a response, no later step raises:
\* the output count and the cost computation each hand over to the next
\* step whatever their outcome, and send_to_llm returns the text of that response (None for a null content)
\* whether or not the token counts and the cost came out known.
C24_CountingNonFatal ==
    /\ []((/\ d_pc \in {"count_output", "cost", "done"}
           /\ remote_calls # <<>>
           /\ d_error # "RemoteCallError") =>
             IF d_pc = "done"
             THEN d_outcome = "returned" /\ d_return.text = response
             ELSE d_outcome = "none")
    /\ [][/\ d_pc = "count_output" => d_pc' = "cost"
          /\ d_pc = "cost" => d_pc' = "done" /\ d_outcome' = "returned"]_vars

\* C24 witness: counting the output tokens of a null content failed, the
\* cost stayed unknown, and the call returned that content
C24_Witness ==
    /\ d_pc = "done"
    /\ d_outcome = "returned"
    /\ d_args.enable_token_counting
    /\ response = NullText
    /\ input_tokens.known
    /\ output_tokens = Unknown
    /\ cost = UnknownCost
    /\ d_return.text = NullText
    /\ d_calls[Len(d_calls)] = "count_tokens"

\* C25: when send_to_llm returns, the cost is known exactly if the input
\* and the output token counts are both known (a count of 0 is known); with
\* enable_token_counting false count_tokens and calculate_cost are never
\* called and the three values are unknown.
C25_CostKnownIffBothCounts ==
    /\ (d_pc = "done" /\ d_outcome = "returned") =>
          (cost.known <=> (input_tokens.known /\ output_tokens.known))
    /\ d_outcome = "raised" => ~cost.known
    /\ (d_pc # "idle" /\ ~d_args.enable_token_counting) =>
          /\ \A k \in 1..Len(d_calls) :
                d_calls[k] \notin {"count_tokens", "calculate_cost"}
          /\ input_tokens = Unknown
          /\ output_tokens = Unknown
          /\ cost = UnknownCost

\* C25 witness: an empty response text was counted as 0 tokens and the cost
\* was computed
C25_Witness ==
    /\ d_pc = "done"
    /\ d_outcome = "returned"
    /\ d_args.enable_token_counting
    /\ response = Text(TextOf(0))
    /\ input_tokens.known
    /\ output_tokens = Known(0)
    /\ cost.known
    /\ d_calls[Len(d_calls)] = "calculate_cost"

\* C26: every payload of the Responses API has an input field and no
\* messages field, and its reasoning entry is {effort: "high"} whatever the
\* caller's keyword arguments are.
C26_ReasoningAlwaysHigh ==
    (shape = "RESPONSE_API" /\ remote_calls # <<>>) =>
        /\ "input" \in DOMAIN api_params
        /\ "messages" \notin DOMAIN api_params
        /\ "reasoning" \in DOMAIN api_params
        /\ api_params["reasoning"] = [effort |-> "high"]

\* the payload keys each send_to_* function sets itself
FixedKeys == {"model", "messages", "input"}

\* the system message of a call shape
SystemMessage(s) ==
    IF s = "RESPONSE_API"
    THEN "You are a security assistant specialized in vulnerability analysis."
    ELSE "You are a security assistant."

\* C30: the payload of every remote call names the requested model and its
\* message list (input for the Responses API, messages otherwise) is the
\* system message of the shape followed by the caller's prompt; the
\* normalized parameters hold none of the keys model, messages and input,
\* which no registered model lists as supported.
C30_PayloadKeysNotOverridable ==
    /\ \A m \in DOMAIN MODEL_CONFIGS :
          MODEL_CONFIGS[m].supported_parameters \cap FixedKeys = {}
    /\ remote_calls # <<>> =>
          /\ DOMAIN validated_params \cap FixedKeys = {}
          /\ api_params["model"] = d_args.model
          /\ api_params[IF shape = "RESPONSE_API" THEN "input" ELSE "messages"] =
                <<[role |-> "system", content |-> SystemMessage(shape)],
                  [role |-> "user", content |-> d_args.prompt]>>
          /\ DOMAIN api_params \cap {"messages", "input"} =
                {IF shape = "RESPONSE_API" THEN "input" ELSE "messages"}

\* C30 witness: a caller passed messages and input of its own to a chat
\* model and the request went out with the system message and the prompt
C30_Witness ==
    /\ remote_calls = <<"chat.completions.create">>
    /\ d_args.model = "gpt-4"
    /\ d_args.kwargs = PayloadKwargs
    /\ api_params["messages"][2].content = d_args.prompt
    /\ "top_p" \in DOMAIN api_params

----------------------------------------------------------------------------
(* The loose-object scan and the field recovery (SpecExtract)              *)

\* a span parses as JSON and holds the four required fields
Qualifies(span) ==
    /\ json_loads(span).ok
    /\ json_loads(span).val.ty = "obj"
    /\ RequiredSet \subseteq DOMAIN json_loads(span).val.m

\* the positions of the qualifying spans among the spans of the text that
\* are delimited by braces, hold no other brace and name "False Positive"
QualifyingSpans(t) ==
    {i \in 1..Len(loose_findall(t)) : Qualifies(loose_findall(t)[i])}

\* stages 1 and 2 have failed on the text and handed over to stage 3
ReachesStage3(t) == ~json_loads(t).ok /\ ~fenced_parse(t, model).ok

\* C27: stage 3 returns only after stages 1 and 2 failed; what it returns is
\* the first span, in order of appearance, that parses and holds the four
\* required fields, with model_used set; spans before it that do not parse
\* or lack a field are passed over, and with no such span the call goes on
\* to stage 4.
C27_LooseScanFirstQualifying ==
    TextDone =>
        LET t == content.toks
            spans == loose_findall(t)
            Q == QualifyingSpans(t)
        IN  /\ via = "stage3" => ReachesStage3(t)
            /\ (ReachesStage3(t) /\ Q # {}) =>
                  /\ via = "stage3"
                  /\ \E i \in Q :
                        /\ \A j \in Q : i <= j
                        /\ result = WithModelUsed(json_loads(spans[i]).val.m, model)
            /\ (ReachesStage3(t) /\ Q = {}) => via \in {"stage4", "sentinel"}

\* C27 witness: the first span names False Positive and is not JSON, the
\* second lacks a field, and the third span was returned
C27_Witness ==
    /\ TextDone
    /\ via = "stage3"
    /\ Len(loose_findall(content.toks)) = 3
    /\ ~json_loads(loose_findall(content.toks)[1]).ok
    /\ json_loads(loose_findall(content.toks)[2]).ok
    /\ QualifyingSpans(content.toks) = {3}

\* the Verdict stage 4 assembles from the four matches on the text
FieldsVerdict(t, m) ==
    [x \in RequiredSet \cup {"model_used"} |->
        IF x = "model_used" THEN JStr(m) ELSE JStr(field_search(t, x).grp)]

\* C28: when stages 1, 2 and 3 fail on the text, the result is the Verdict
\* of the four matched values and model_used if every required field has a
\* match "<field>": "<non-empty value>", and otherwise all four fields are
\* "ERROR"; the result never mixes the two.
C28_FieldRecoveryAllOrNothing ==
    (/\ TextDone
     /\ ~Stage1Ok(content.toks)
     /\ ~fenced_parse(content.toks, model).ok
     /\ ~loose_scan(content.toks, model).ok) =>
        IF \A f \in RequiredSet : field_search(content.toks, f).ok
        THEN result = FieldsVerdict(content.toks, model)
        ELSE \A f \in RequiredSet : result[f] = JStr("ERROR")

----------------------------------------------------------------------------
(* model_used on every return path (SpecBatch)                             *)

\* C29: whichever way a call of _call_openrouter_api made by the batch
\* loop returns (a stage of the cascade, the sentinel, the missing key, an
\* HTTP error, an exception), the model_used of the returned record, and of
\* the record the loop keeps, is the model the call was made with, also
\* when that is not the generator's own model.
C29_ModelUsedIsCallModel ==
    /\ (b_pc = "wait" /\ pc = "done" /\ outcome = "returned") =>
          result["model_used"] = JStr(model_to_use)
    /\ \A i \in 1..Len(all_results) :
          all_results[i]["model_used"] = JStr(model_to_use)

====
